---- MODULE Spec2Model ----
(***************************************************************************)
(* A model of the scripts of the IBEX imaging knowledge base utilities:    *)
(* the URL existence checker (url_exists, urls_exist_with_retries,         *)
(* check_urls) and the generic dataframe validation (validate_df) of       *)
(* data_validation/validation_utilities.py, validate_zenodo_json,          *)
(* validate_bib_file_data, validate_reagent_resources, validate_videos,    *)
(* validate_basic, create_release_notes, update_index_stats and            *)
(* csv_2_supporting.  Every script has its own variables and its own       *)
(* specification; the scripts that call validate_df run it on the          *)
(* variables of validate_df.                                               *)
(***************************************************************************)
EXTENDS Integers, Sequences, FiniteSets, TLC

VARIABLES
    \* ---- url_exists: one call --------------------------------------------
    ue_url,          \* the url argument
    ue_head,         \* what session.head does (a response or an exception)
    ue_get,          \* what session.get does, when it is called
    ue_pc,           \* "call" | "done"
    ue_result,       \* [returned, value, raised]
    \* ---- check_urls: the calling thread -----------------------------------
    urls_container,  \* the container argument, as the sequence it iterates in
    num_threads,     \* ThreadPoolExecutor(num_threads)
    retry_num,       \* forwarded to urls_exist_with_retries
    main_pc,         \* "group" | "map" | "collect" | "return" | "done" | "off"
    results_dict,    \* url -> bool
    domain_groups,   \* sequence of [domain, urls] in insertion order
    futures,         \* per task: [done, value]
    next_task,       \* head of the executor's work queue
    collect_k,       \* position of the calling thread in zip(dict_values, res)
    ret,             \* the returned list
    \* ---- check_urls: the worker threads -----------------------------------
    workers,         \* per worker thread: its position in urls_exist_with_retries
    \* ---- history (not program state) --------------------------------------
    checks,          \* per task and url position: the url_exists results, in order
    ran,             \* per task: the worker thread that ran it (0: none yet)
    acc,             \* accesses to mutable objects: <<thread, object, "r"|"w">>
    \* ---- validate_df: one call ---------------------------------------------
    vd_df,           \* the dataframe: [columns, rows], each row a function column -> string
    vd_cfg,          \* the keyword arguments (the JSON configuration)
    vd_pc,           \* the check about to run | "returned" | "raised" | "off"
    vd_result,       \* the value returned (NoResult before the return)
    vd_raised,       \* the exception that left the function ("" if none)
    vd_stderr,       \* the diagnostics printed to sys.stderr, in order
    vd_ran,          \* history: the checks that have run, in order
    vd_requests,     \* history: the urls handed to check_urls
    vd_invalid,      \* history: the urls check_urls reported as not existing
    \* ---- validate_zenodo_json: one call ------------------------------------
    zj_dict,         \* zenodo_dict, the content of the .zenodo.json file
    zj_pc,           \* the check about to run | "returned" | "raised" | "off"
    zj_result,       \* the value returned (NoResult before the return)
    zj_raised,       \* the exception that left the function ("" if none)
    zj_stdout,       \* what print() wrote to sys.stdout, in order
    zj_stderr,       \* what was written to sys.stderr, in order
    zj_requests,     \* history: the urls handed to check_urls
    \* ---- validate_bib_file_data: one call --------------------------------------
    bf_file,         \* the blocks of the .bib file, in order
    bf_pc,           \* "call" | "returned" | "off"
    bf_result,       \* the value returned (NoResult before the return)
    bf_stderr,       \* the diagnostics printed to sys.stderr, in order
    \* ---- validate_reagent_resources: one call ----------------------------------
    rr_df,           \* the dataframe of the csv file
    rr_config,       \* configuration_dict as loaded from the JSON configuration file
    rr_pc,           \* the step about to run | "returned" | "raised" | "off"
    rr_result,       \* the value returned (NoResult before the return)
    rr_raised,       \* the exception that left the function ("" if none)
    rr_stdout,       \* what print() wrote to sys.stdout, in order
    rr_files,        \* the markdown files under the root when read: path -> content
    rr_ran,          \* history: the own checks that have run, in order
    \* ---- validate_videos: one call ---------------------------------------------
    vv_df,           \* the dataframe of the csv file
    vv_config,       \* configuration_dict as loaded from the JSON configuration file
    vv_pc,           \* "configure" | "validate_df" | "returned" | "raised" | "off"
    vv_result,       \* the value returned (NoResult before the return)
    vv_raised,       \* the exception that left the function ("" if none)
    \* ---- create_release_notes.py: one run of the script ------------------------
    cr_changelog,    \* CHANGELOG.md: [exists, lines]
    cr_pc,           \* "main" | "returned" | "raised" | "exit" | "off"
    cr_result,       \* the value create_release_notes returned
    cr_raised,       \* the exception that left create_release_notes ("" if none)
    cr_output,       \* the lines written to release_notes.txt (<<>>: not written)
    cr_stderr,       \* what main printed to sys.stderr
    cr_exit,         \* the value main returned, the exit code of the script
    \* ---- validate_basic.main: one call -----------------------------------------
    vb_df,           \* the dataframe of the csv file
    vb_config,       \* configuration_dict as loaded from the JSON configuration file
    vb_pc,           \* "main" | "validate_df" | "returned" | "raised" | "off"
    vb_result,       \* the value returned (NoResult before the return)
    vb_raised,       \* the exception that left main ("" if none)
    \* ---- update_index_stats: one call ------------------------------------------
    us_template,     \* the content of the markdown template file, in pieces
    us_csv,          \* the rows of the csv file
    us_pc,           \* "call" | "done" | "off"
    us_output,       \* the content written to the output file, in pieces
    \* ---- csv_2_supporting: one run of main -------------------------------------
    cs_df,           \* the dataframe of the csv file
    cs_template,     \* whether the template file exists
    cs_pc,           \* the step about to run | "returned" | "raised" | "exit" | "off"
    cs_raised,       \* the exception that left csv_2_supporting ("" if none)
    cs_created,      \* the directories and files created under the root directory
    cs_exit,         \* the value main returned
    \* ---- urls_exist_with_retries: the sleeps of one call -----------------------
    bo_urls,         \* the number of urls of the call
    bo_retry_num,    \* the argument retry_num
    bo_j,            \* the index of the url being checked
    bo_i,            \* the local variable i
    bo_not_successful,\* the local variable not_successful
    bo_sleeps,       \* the arguments of the sleeps before the retries of the url, in ticks
    bo_results,      \* the list results
    bo_pc            \* the step about to run | "returned" | "off"

ue_vars == <<ue_url, ue_head, ue_get, ue_pc, ue_result>>
cu_vars == <<urls_container, num_threads, retry_num, main_pc, results_dict,
             domain_groups, futures, next_task, collect_k, ret, workers,
             checks, ran, acc>>
vd_vars == <<vd_df, vd_cfg, vd_pc, vd_result, vd_raised, vd_stderr, vd_ran, vd_requests,
             vd_invalid>>
zj_vars == <<zj_dict, zj_pc, zj_result, zj_raised, zj_stdout, zj_stderr, zj_requests>>
bf_vars == <<bf_file, bf_pc, bf_result, bf_stderr>>
rr_vars == <<rr_df, rr_config, rr_pc, rr_result, rr_raised, rr_stdout, rr_files, rr_ran>>
vv_vars == <<vv_df, vv_config, vv_pc, vv_result, vv_raised>>
cr_vars == <<cr_changelog, cr_pc, cr_result, cr_raised, cr_output, cr_stderr, cr_exit>>
vb_vars == <<vb_df, vb_config, vb_pc, vb_result, vb_raised>>
us_vars == <<us_template, us_csv, us_pc, us_output>>
cs_vars == <<cs_df, cs_template, cs_pc, cs_raised, cs_created, cs_exit>>
bo_vars == <<bo_urls, bo_retry_num, bo_j, bo_i, bo_not_successful, bo_sleeps, bo_results, bo_pc>>
vars == <<ue_vars, cu_vars, vd_vars, zj_vars, bf_vars, rr_vars, vv_vars, cr_vars, vb_vars, us_vars, cs_vars, bo_vars>>
\* what each part of the model leaves alone
ue_others == <<cu_vars, vd_vars, zj_vars, bf_vars, rr_vars, vv_vars, cr_vars, vb_vars, us_vars, cs_vars, bo_vars>>
cu_others == <<ue_vars, vd_vars, zj_vars, bf_vars, rr_vars, vv_vars, cr_vars, vb_vars, us_vars, cs_vars, bo_vars>>
vd_others == <<ue_vars, cu_vars, zj_vars, bf_vars, rr_vars, vv_vars, cr_vars, vb_vars, us_vars, cs_vars, bo_vars>>
zj_others == <<ue_vars, cu_vars, vd_vars, bf_vars, rr_vars, vv_vars, cr_vars, vb_vars, us_vars, cs_vars, bo_vars>>
bf_others == <<ue_vars, cu_vars, vd_vars, zj_vars, rr_vars, vv_vars, cr_vars, vb_vars, us_vars, cs_vars, bo_vars>>
rr_others == <<ue_vars, cu_vars, vd_vars, zj_vars, bf_vars, vv_vars, cr_vars, vb_vars, us_vars, cs_vars, bo_vars>>
\* what a step that calls validate_df leaves alone
rr_callee_others == <<ue_vars, cu_vars, zj_vars, bf_vars, vv_vars, cr_vars, vb_vars, us_vars, cs_vars, bo_vars>>
vv_others == <<ue_vars, cu_vars, vd_vars, zj_vars, bf_vars, rr_vars, cr_vars, vb_vars, us_vars, cs_vars, bo_vars>>
vv_callee_others == <<ue_vars, cu_vars, zj_vars, bf_vars, rr_vars, cr_vars, vb_vars, us_vars, cs_vars, bo_vars>>
cr_others == <<ue_vars, cu_vars, vd_vars, zj_vars, bf_vars, rr_vars, vv_vars, vb_vars, us_vars, cs_vars, bo_vars>>
vb_others == <<ue_vars, cu_vars, vd_vars, zj_vars, bf_vars, rr_vars, vv_vars, cr_vars, us_vars, cs_vars, bo_vars>>
vb_callee_others == <<ue_vars, cu_vars, zj_vars, bf_vars, rr_vars, vv_vars, cr_vars, us_vars, cs_vars, bo_vars>>
us_others == <<ue_vars, cu_vars, vd_vars, zj_vars, bf_vars, rr_vars, vv_vars, cr_vars, vb_vars, cs_vars, bo_vars>>
cs_others == <<ue_vars, cu_vars, vd_vars, zj_vars, bf_vars, rr_vars, vv_vars, cr_vars, vb_vars, us_vars, bo_vars>>
bo_others == <<ue_vars, cu_vars, vd_vars, zj_vars, bf_vars, rr_vars, vv_vars, cr_vars, vb_vars, us_vars, cs_vars>>

(***************************************************************************)
(* Bounds of the model.                                                    *)
(***************************************************************************)
MaxUrls == 2
MaxThreads == 2
MaxRetry == 1
MaxRows == 2
MaxCreators == 5
MaxGrants == 2
MaxBlocks == 3
MaxLines == 4
MaxPieces == 2
MaxBackoffRetry == 3
JitterSteps == 4

(***************************************************************************)
(* URLs.  A url is the record of the parts urlparse splits it into; the    *)
(* network location (netloc) is "host" or "host:port", the host name is    *)
(* the host alone.  BadUrl stands for a url urlparse rejects with a        *)
(* ValueError, such as "http://[::1".                                       *)
(***************************************************************************)
Url(h, p, q) == [host |-> h, port |-> p, path |-> q]
BadUrl == Url("[", "", "")
Urls == {Url("a", "", "x"), Url("a", "", "y"), Url("a", "80", "x"),
         Url("b", "", "x"), BadUrl}
UrlparseRaises(url) == url.host = "["
Netloc(url) == <<url.host, url.port>>
Hostname(url) == url.host

(***************************************************************************)
(* url_exists.  What a request does: it returns a response with a status   *)
(* code or raises an exception of the requests library.                    *)
(***************************************************************************)
StatusCodes == {200, 204, 301, 302, 303, 304, 307, 308, 400, 403, 404, 405, 500}
ExceptionClasses == {"Timeout", "ConnectTimeout", "ReadTimeout", "SSLError",
                     "ConnectionError", "ProxyError", "HTTPError",
                     "TooManyRedirects", "InvalidURL"}
Response(code) == [kind |-> "response", status |-> code, class |-> ""]
Raise(c) == [kind |-> "exception", status |-> 0, class |-> c]
Outcomes == {Response(code) : code \in StatusCodes} \cup {Raise(c) : c \in ExceptionClasses}

\* The classes of requests.exceptions an exception class derives from (itself included).
Bases(c) ==
    CASE c = "Timeout"          -> {"Timeout", "RequestException"}
      [] c = "ConnectTimeout"   -> {"ConnectTimeout", "ConnectionError", "Timeout", "RequestException"}
      [] c = "ReadTimeout"      -> {"ReadTimeout", "Timeout", "RequestException"}
      [] c = "SSLError"         -> {"SSLError", "ConnectionError", "RequestException"}
      [] c = "ProxyError"       -> {"ProxyError", "ConnectionError", "RequestException"}
      [] c = "ConnectionError"  -> {"ConnectionError", "RequestException"}
      [] c = "HTTPError"        -> {"HTTPError", "RequestException"}
      [] c = "TooManyRedirects" -> {"TooManyRedirects", "RequestException"}
      [] c = "InvalidURL"       -> {"InvalidURL", "RequestException"}
      [] OTHER                  -> {c}
IsInstance(c, base) == base \in Bases(c)

\* line 62: the status codes taken to mean that the url exists
ExistsStatusNo403 == {200, 301, 302, 303, 307, 308}
ExistsStatus == {200, 301, 302, 303, 307, 308, 403}

Returned(v) == [returned |-> TRUE, value |-> v, raised |-> ""]
Propagated(c) == [returned |-> FALSE, value |-> FALSE, raised |-> c]

\* lines 63-71 without the last clause: a request exception other than a
\* timeout or an SSL error leaves the function
ExceptHandlersNoCatchAll(c) ==
    IF IsInstance(c, "Timeout") THEN Returned(TRUE)
    ELSE IF IsInstance(c, "SSLError") THEN Returned(TRUE)
    ELSE Propagated(c)
\* lines 63-71: the except clauses, tried in order
ExceptHandlers(c) ==
    IF IsInstance(c, "Timeout") THEN Returned(TRUE)
    ELSE IF IsInstance(c, "SSLError") THEN Returned(TRUE)
    ELSE IF IsInstance(c, "RequestException") THEN Returned(FALSE)
    ELSE Propagated(c)

\* lines 38-71: head, then get when head answers 405, then the status test
UrlExists(head, get) ==
    IF head.kind = "exception" THEN ExceptHandlers(head.class)
    ELSE IF head.status = 405
         THEN IF get.kind = "exception" THEN ExceptHandlers(get.class)
              ELSE Returned(get.status \in ExistsStatus)
         ELSE Returned(head.status \in ExistsStatus)

\* The last thing the requests of one call did: the response whose status is
\* tested, or the exception that ended the try block.
FinalOutcome(head, get) ==
    IF head.kind = "response" /\ head.status = 405 THEN get ELSE head

\* The values a call of url_exists can give its caller.
UrlExistsValues == {UrlExists(h, g).value : h \in Outcomes, g \in Outcomes}

ue_Init ==
    /\ ue_url \in Urls \ {BadUrl}
    /\ ue_head \in Outcomes
    /\ ue_get \in Outcomes
    /\ ue_pc = "call"
    /\ ue_result = Propagated("")
ue_Off ==
    /\ ue_url = BadUrl
    /\ ue_head = Response(200)
    /\ ue_get = Response(200)
    /\ ue_pc = "off"
    /\ ue_result = Propagated("")

url_exists ==
    /\ ue_pc = "call"
    /\ ue_result' = UrlExists(ue_head, ue_get)
    /\ ue_pc' = "done"
    /\ UNCHANGED <<ue_url, ue_head, ue_get>>
    /\ UNCHANGED ue_others

(***************************************************************************)
(* check_urls: the calling thread groups the urls by network location,     *)
(* hands one task per group to a thread pool and gathers the results.      *)
(***************************************************************************)
Threads == 1..num_threads
Group(t) == domain_groups[t].urls
NoFuture == [done |-> FALSE, value |-> <<>>]
Idle == [pc |-> "idle", task |-> 0, j |-> 0, i |-> 0, first |-> TRUE,
         not_successful |-> FALSE, results |-> <<>>]

\* The mutable objects the threads touch.
ResultsDict == <<"results_dict", 0>>
DomainGroup(t) == <<"domain_group", t>>
\* one session object for all the tasks
SharedSession(t) == <<"session", 0>>
\* line 153: each call of urls_exist_with_retries opens a session of its own
Session(t) == <<"session", t>>
ResultList(t) == <<"results", t>>
\* the generators behind random.choice, random.uniform and numpy.random.random
GlobalRandom == <<"random", 0>>

RECURSIVE GroupUrls(_, _)
\* lines 226-230: domain_groups[urlparse(url).netloc].append(url), a dict in
\* insertion order
GroupUrls(urls, groups) ==
    IF urls = <<>> THEN groups
    ELSE LET url == Head(urls) IN
         IF UrlparseRaises(url) THEN GroupUrls(Tail(urls), groups)
         ELSE LET domain == Netloc(url)
                  at == {g \in 1..Len(groups) : groups[g].domain = domain}
              IN  IF at = {}
                  THEN GroupUrls(Tail(urls),
                                 Append(groups, [domain |-> domain, urls |-> <<url>>]))
                  ELSE GroupUrls(Tail(urls),
                                 [groups EXCEPT ![CHOOSE g \in at : TRUE].urls = Append(@, url)])

\* lines 231-233: results_dict[url] = False for the urls urlparse rejects
RejectedUrls(urls) ==
    [url \in {urls[n] : n \in {m \in 1..Len(urls) : UrlparseRaises(urls[m])}} |-> FALSE]

\* results_dict[url] = result
SetItem(dict, key, value) ==
    [k \in DOMAIN dict \cup {key} |-> IF k = key THEN value ELSE dict[k]]

RECURSIVE ZipStore(_, _, _)
\* lines 249-250: for url, result in zip(url_list, result_list): results_dict[url] = result
ZipStore(dict, url_list, result_list) ==
    IF url_list = <<>> \/ result_list = <<>> THEN dict
    ELSE ZipStore(SetItem(dict, Head(url_list), Head(result_list)),
                  Tail(url_list), Tail(result_list))

\* the results of the groups one after the other, not in the container's order
ReturnListByGroup(dict, container) ==
    LET groups == GroupUrls(container, <<>>)
        flat == [n \in 1..Len(groups) |-> groups[n].urls]
        RECURSIVE Concat(_)
        Concat(ss) == IF ss = <<>> THEN <<>> ELSE Head(ss) \o Concat(Tail(ss))
        order == Concat(flat)
    IN  [n \in 1..Len(order) |-> dict[order[n]]]
\* line 251: [results_dict[url] for url in urls_container]
ReturnList(dict, container) ==
    [n \in 1..Len(container) |-> dict[container[n]]]

cu_Init ==
    /\ urls_container \in UNION {[1..n -> Urls] : n \in 0..MaxUrls}
    /\ num_threads \in 1..MaxThreads
    /\ retry_num \in 0..MaxRetry
    /\ main_pc = "group"
    /\ results_dict = <<>>
    /\ domain_groups = <<>>
    /\ futures = <<>>
    /\ next_task = 1
    /\ collect_k = 1
    /\ ret = <<>>
    /\ workers = [w \in 1..num_threads |-> Idle]
    /\ checks = <<>>
    /\ ran = <<>>
    /\ acc = {}
cu_Off ==
    /\ urls_container = <<>>
    /\ num_threads = 1
    /\ retry_num = 0
    /\ main_pc = "off"
    /\ results_dict = <<>>
    /\ domain_groups = <<>>
    /\ futures = <<>>
    /\ next_task = 1
    /\ collect_k = 1
    /\ ret = <<>>
    /\ workers = <<Idle>>
    /\ checks = <<>>
    /\ ran = <<>>
    /\ acc = {}

\* lines 223-233
GroupByDomain ==
    /\ main_pc = "group"
    /\ domain_groups' = GroupUrls(urls_container, <<>>)
    /\ results_dict' = RejectedUrls(urls_container)
    /\ acc' = acc \cup {<<0, ResultsDict, "w">>}
                  \cup {<<0, DomainGroup(t), "w">> : t \in 1..Len(domain_groups')}
    /\ main_pc' = "map"
    /\ UNCHANGED cu_others
    /\ UNCHANGED <<urls_container, num_threads, retry_num, futures, next_task,
                   collect_k, ret, workers, checks, ran>>

\* lines 235-247: executor.map submits one task per group, in order
ExecutorMap ==
    /\ main_pc = "map"
    /\ futures' = [t \in 1..Len(domain_groups) |-> NoFuture]
    /\ checks' = [t \in 1..Len(domain_groups) |->
                    [j \in 1..Len(Group(t)) |-> <<>>]]
    /\ ran' = [t \in 1..Len(domain_groups) |-> 0]
    /\ next_task' = 1
    /\ collect_k' = 1
    /\ main_pc' = "collect"
    /\ UNCHANGED cu_others
    /\ UNCHANGED <<urls_container, num_threads, retry_num, results_dict,
                   domain_groups, ret, workers, acc>>

\* lines 248-250: the next result of the map iterator, once its task is done
Collect ==
    /\ main_pc = "collect"
    /\ collect_k <= Len(domain_groups)
    /\ futures[collect_k].done
    /\ results_dict' = ZipStore(results_dict, Group(collect_k), futures[collect_k].value)
    /\ acc' = acc \cup {<<0, DomainGroup(collect_k), "r">>,
                        <<0, ResultList(collect_k), "r">>,
                        <<0, ResultsDict, "w">>}
    /\ collect_k' = collect_k + 1
    /\ UNCHANGED cu_others
    /\ UNCHANGED <<urls_container, num_threads, retry_num, main_pc, domain_groups,
                   futures, next_task, ret, workers, checks, ran>>

\* line 251, after the executor is shut down
Return ==
    /\ main_pc = "collect"
    /\ collect_k > Len(domain_groups)
    /\ ret' = ReturnList(results_dict, urls_container)
    /\ acc' = acc \cup {<<0, ResultsDict, "r">>}
    /\ main_pc' = "done"
    /\ UNCHANGED cu_others
    /\ UNCHANGED <<urls_container, num_threads, retry_num, results_dict,
                   domain_groups, futures, next_task, collect_k, workers, checks, ran>>

(***************************************************************************)
(* The worker threads, each running urls_exist_with_retries on the group   *)
(* of its task.                                                            *)
(***************************************************************************)
\* one retry too many
RetryLoopOffByOne(i, n, not_successful) == i <= n /\ not_successful
\* line 173: while i < retry_num and not_successful
RetryLoop(i, n, not_successful) == i < n /\ not_successful

\* lines 101-156: a worker thread takes the next task of the queue, picks its
\* user agent, opens its session and sends the first request for the first url
\* of its group
StartTask(w) ==
    /\ main_pc = "collect"
    /\ workers[w].pc = "idle"
    /\ next_task <= Len(domain_groups)
    /\ workers' = [workers EXCEPT ![w] =
                     [pc |-> "request", task |-> next_task, j |-> 1, i |-> 0,
                      first |-> TRUE, not_successful |-> FALSE, results |-> <<>>]]
    /\ ran' = [ran EXCEPT ![next_task] = w]
    /\ acc' = acc \cup {<<w, GlobalRandom, "w">>,
                        <<w, Session(next_task), "w">>,
                        <<w, ResultList(next_task), "w">>,
                        <<w, DomainGroup(next_task), "r">>}
    /\ next_task' = next_task + 1
    /\ UNCHANGED cu_others
    /\ UNCHANGED <<urls_container, num_threads, retry_num, main_pc, results_dict,
                   domain_groups, futures, collect_k, ret, checks>>

\* lines 188-193: the delay after a url, then the next url or the return
AfterUrl(me, results) ==
    IF me.j + 1 > Len(Group(me.task))
    THEN [me EXCEPT !.pc = "return", !.results = results]
    ELSE [me EXCEPT !.pc = "request", !.j = me.j + 1, !.i = 0, !.first = TRUE,
                    !.not_successful = FALSE, !.results = results]

\* lines 173-186: the test of the while loop, and what follows the loop
Loop(me, i, not_successful, results) ==
    IF RetryLoop(i, retry_num, not_successful)
    THEN [me EXCEPT !.pc = "request", !.i = i, !.first = FALSE,
                    !.not_successful = not_successful, !.results = results]
    ELSE AfterUrl([me EXCEPT !.i = i, !.not_successful = not_successful],
                  IF not_successful THEN Append(results, FALSE) ELSE results)

\* lines 156-186: what the worker does with the value of url_exists
AfterCheck(me, exists) ==
    IF me.first
    THEN (IF exists
          THEN AfterUrl(me, Append(me.results, TRUE))
          ELSE Loop(me, 0, TRUE, me.results))
    ELSE (IF exists
          THEN Loop(me, me.i + 1, FALSE, Append(me.results, TRUE))
          ELSE Loop(me, me.i + 1, TRUE, me.results))

\* lines 156-193: url_exists returns, and the worker runs on to its next
\* request (a retry after the backoff, or the next url after the delay) or to
\* the end of its task
EndCheck(w) ==
    /\ workers[w].pc = "request"
    /\ \E exists \in UrlExistsValues :
        LET me == workers[w]
            next == AfterCheck(me, exists)
            slept == \/ next.pc = "request" /\ ~next.first
                     \/ Len(Group(me.task)) > 1
        IN  /\ workers' = [workers EXCEPT ![w] = IF next.pc = "return" THEN Idle ELSE next]
            /\ checks' = [checks EXCEPT ![me.task][me.j] = Append(@, exists)]
            /\ futures' = IF next.pc = "return"
                          THEN [futures EXCEPT ![me.task] =
                                  [done |-> TRUE, value |-> next.results]]
                          ELSE futures
            /\ acc' = acc \cup (IF next.results # me.results
                                THEN {<<w, ResultList(me.task), "w">>} ELSE {})
                          \cup (IF next.pc = "request"
                                THEN {<<w, DomainGroup(me.task), "r">>,
                                      <<w, Session(me.task), "w">>} ELSE {})
                          \cup (IF slept THEN {<<w, GlobalRandom, "w">>} ELSE {})
    /\ UNCHANGED cu_others
    /\ UNCHANGED <<urls_container, num_threads, retry_num, main_pc, results_dict,
                   domain_groups, next_task, collect_k, ret, ran>>

cu_Next ==
    \/ GroupByDomain
    \/ ExecutorMap
    \/ Collect
    \/ Return
    \/ \E w \in Threads : StartTask(w)
    \/ \E w \in Threads : EndCheck(w)

(***************************************************************************)
(* Strings, as sequences of characters, with the two string methods the    *)
(* validation uses.                                                        *)
(***************************************************************************)
RECURSIVE LStrip(_)
LStrip(s) == IF s # <<>> /\ Head(s) = " " THEN LStrip(Tail(s)) ELSE s
RECURSIVE RStrip(_)
RStrip(s) == IF s # <<>> /\ s[Len(s)] = " " THEN RStrip(SubSeq(s, 1, Len(s) - 1)) ELSE s
\* str.strip()
Strip(s) == LStrip(RStrip(s))
RECURSIVE SplitFrom(_, _, _)
SplitFrom(s, sep, piece) ==
    IF s = <<>> THEN <<piece>>
    ELSE IF Head(s) = sep THEN <<piece>> \o SplitFrom(Tail(s), sep, <<>>)
    ELSE SplitFrom(Tail(s), sep, Append(piece, Head(s)))
\* str.split(";"): the pieces between the separators, at least one
Split(s) == SplitFrom(s, ";", <<>>)
Range(f) == {f[x] : x \in DOMAIN f}

(***************************************************************************)
(* validate_df.  The dataframes have a single-value column c1 and a        *)
(* multi-value column c2.                                                  *)
(***************************************************************************)
C1Values == {<<"a">>, <<"b">>, <<>>, <<" ", "a">>}
C2Values == {<<"a", ";", "b">>, <<"a", ";", "a">>, <<"a", ";", " ", "a">>}
DfColumns == {"c1", "c2"}
DataFrames ==
    {[columns |-> DfColumns, rows |-> rows] :
        rows \in [1..MaxRows -> {[c1 |-> v1, c2 |-> v2] : v1 \in C1Values, v2 \in C2Values}]}

\* df[col], the cells of a column from the first row to the last
Column(df, col) == [n \in 1..Len(df.rows) |-> df.rows[n][col]]

\* The configurations: which columns are required and optional, which must be
\* unique, and what each column holds: free text, text of a given list of
\* values ("isin"), urls or dois.
ColumnSets == {<<{"c1", "c2"}, {}>>, <<{"c2"}, {"c1"}>>,
               <<{"c1", "c2"}, {"c2"}>>, <<{"c1"}, {}>>, <<{"c1", "c2", "c3"}, {}>>}
ColumnKinds == {"text", "isin", "url", "doi"}
ColumnsOfKind(kind, k1, k2, col1, col2) ==
    (IF k1 = kind THEN {col1} ELSE {}) \cup (IF k2 = kind THEN {col2} ELSE {})
Configuration(names, unique1, unique2, k1, k2) ==
    [data_required_column_names |-> names[1],
     data_optional_column_names |-> names[2],
     unique_single_value_columns |-> IF unique1 THEN {"c1"} ELSE {},
     unique_multi_value_columns |-> IF unique2 THEN {"c2"} ELSE {},
     url_columns |-> IF k1 = "url" THEN {"c1"} ELSE {},
     multi_url_columns |-> IF k2 = "url" THEN {"c2"} ELSE {},
     doi_columns |-> IF k1 = "doi" THEN {"c1"} ELSE {},
     multi_doi_columns |-> IF k2 = "doi" THEN {"c2"} ELSE {},
     column_is_in |-> [c \in (IF k1 = "isin" THEN {"c1"} ELSE {}) |-> {<<"a">>}],
     multi_value_column_is_in |->
         [c \in (IF k2 = "isin" THEN {"c2"} ELSE {}) |-> {<<"a">>, <<"b">>}]]
Configurations ==
    {Configuration(names, unique1, unique2, k1, k2) :
        names \in ColumnSets, unique1 \in BOOLEAN, unique2 \in BOOLEAN,
        k1 \in ColumnKinds, k2 \in ColumnKinds}

NoResult == -1

\* lines 352-358
RequiredOptionalIntersection(cfg) ==
    cfg.data_required_column_names \cap cfg.data_optional_column_names
\* line 366
ExpectedColumnNames(cfg) ==
    cfg.data_required_column_names \cup cfg.data_optional_column_names
\* line 368
UnexpectedColumns(df, cfg) == df.columns \ ExpectedColumnNames(cfg)
\* line 376
MissingColumns(df, cfg) == ExpectedColumnNames(cfg) \ df.columns
\* lines 385-386 with all(axis=1) in place of any(axis=1)
LeadingTrailingRowsAll(df) ==
    {n \in 1..Len(df.rows) : \A c \in df.columns : df.rows[n][c] # Strip(df.rows[n][c])}
\* lines 385-386: the rows with a cell that differs from its strip()
LeadingTrailingRows(df) ==
    {n \in 1..Len(df.rows) : \E c \in df.columns : df.rows[n][c] # Strip(df.rows[n][c])}
\* lines 396-398: the rows with an empty cell in a required column
EmptyRows(df, cfg) ==
    {n \in 1..Len(df.rows) : \E c \in cfg.data_required_column_names : df.rows[n][c] = <<>>}

\* lines 254-277 as if only values other than "" could be duplicates
DuplicatedEntriesNonEmpty(df, column_names) ==
    {col \in column_names :
        \E n \in 1..Len(df.rows), m \in 1..Len(df.rows) :
            m < n /\ df.rows[n][col] = df.rows[m][col] /\ df.rows[n][col] # <<>>}
\* lines 254-277: the columns in which df[col].duplicated() marks a row, that is,
\* in which a row repeats the value of an earlier row
DuplicatedEntriesSingleValueColumns(df, column_names) ==
    {col \in column_names :
        \E n \in 1..Len(df.rows), m \in 1..Len(df.rows) :
            m < n /\ df.rows[n][col] = df.rows[m][col]}

\* line 289: [v.strip() for v in x.split(";") if v.strip() != ""]
CurrentData(x) ==
    LET pieces == Split(x) IN
    SelectSeq([n \in 1..Len(pieces) |-> Strip(pieces[n])], LAMBDA v : v # <<>>)
\* lines 286-291: the rows of a column whose cell holds a value twice
ProblemRows(df, col) ==
    {n \in 1..Len(df.rows) :
        LET current_data == CurrentData(df.rows[n][col])
        IN  Len(current_data) # Cardinality(Range(current_data))}
\* lines 280-294: ", ".join(problem_rows) joins integers, which raises a
\* TypeError as soon as a column has a problem row; otherwise the dictionary
\* stays empty
DuplicatedEntriesMultiValueColumns(df, column_names) ==
    IF \E col \in column_names : ProblemRows(df, col) # {}
    THEN [raised |-> "TypeError", value |-> {}]
    ELSE [raised |-> "", value |-> {}]

\* lines 297-314: the set of the non-blank cells of the single-value columns
\* and of the stripped, non-empty pieces of the cells of the multi-value columns
GetMultiColumnData(df, single_data_columns, multi_data_columns) ==
    {v \in UNION {Range(Column(df, c)) : c \in single_data_columns} : Strip(v) # <<>>}
    \cup UNION {Range(CurrentData(df.rows[n][c])) :
                    n \in 1..Len(df.rows), c \in multi_data_columns}

\* lines 464-468: per column, the values that are not among the expected ones
UnexpectedValues(df, column_is_in) ==
    [c \in DOMAIN column_is_in |-> Range(Column(df, c)) \ column_is_in[c]]
\* lines 484-498: per column, the pieces of the cells, as split(";") leaves
\* them, that are not empty and not among the expected values
UnexpectedMultiValues(df, multi_value_column_is_in) ==
    [c \in DOMAIN multi_value_column_is_in |->
        (UNION {Range(Split(df.rows[n][c])) : n \in 1..Len(df.rows)})
            \ ({<<>>} \cup multi_value_column_is_in[c])]

\* The checks of validate_df in the order of its body
Checks == <<"configuration", "column names", "whitespace", "required content",
            "unique single value", "unique multi value", "urls", "dois",
            "column_is_in", "multi_value_column_is_in">>

vd_Init ==
    /\ vd_df \in DataFrames
    /\ vd_cfg \in Configurations
    /\ vd_pc = Checks[1]
    /\ vd_result = NoResult
    /\ vd_raised = ""
    /\ vd_stderr = <<>>
    /\ vd_ran = <<>>
    /\ vd_requests = {}
    /\ vd_invalid = {}
vd_Off ==
    /\ vd_df = [columns |-> {}, rows |-> <<>>]
    /\ vd_cfg = Configuration(<<{}, {}>>, FALSE, FALSE, "text", "text")
    /\ vd_pc = "off"
    /\ vd_result = NoResult
    /\ vd_raised = ""
    /\ vd_stderr = <<>>
    /\ vd_ran = <<>>
    /\ vd_requests = {}
    /\ vd_invalid = {}

\* print(..., file=sys.stderr); return 1
PrintAndReturn1(message) ==
    /\ vd_stderr' = Append(vd_stderr, message)
    /\ vd_result' = 1
    /\ vd_pc' = "returned"
    /\ vd_raised' = vd_raised
\* fall through to the next check of the body
FallThrough(next) ==
    /\ vd_pc' = next
    /\ UNCHANGED <<vd_stderr, vd_result, vd_raised>>
\* one check of the body: it starts, and ends the call or falls through
Check(name, problem, message, next) ==
    /\ vd_pc = name
    /\ vd_ran' = Append(vd_ran, name)
    /\ IF problem THEN PrintAndReturn1(message) ELSE FallThrough(next)
    /\ UNCHANGED <<vd_df, vd_cfg>>

\* lines 349-365
ConfigurationCheck ==
    /\ Check("configuration", RequiredOptionalIntersection(vd_cfg) # {},
             "required and optional", "column names")
    /\ UNCHANGED <<vd_requests, vd_invalid, vd_others>>
\* lines 366-382
ColumnNamesCheck ==
    /\ Check("column names",
             UnexpectedColumns(vd_df, vd_cfg) # {} \/ MissingColumns(vd_df, vd_cfg) # {},
             IF UnexpectedColumns(vd_df, vd_cfg) # {} THEN "unexpected columns"
             ELSE "missing columns",
             "whitespace")
    /\ UNCHANGED <<vd_requests, vd_invalid, vd_others>>
\* lines 384-393
WhitespaceCheck ==
    /\ Check("whitespace", LeadingTrailingRows(vd_df) # {},
             "leading/trailing whitespace", "required content")
    /\ UNCHANGED <<vd_requests, vd_invalid, vd_others>>
\* lines 395-405
RequiredContentCheck ==
    /\ Check("required content", EmptyRows(vd_df, vd_cfg) # {},
             "required to have data", "unique single value")
    /\ UNCHANGED <<vd_requests, vd_invalid, vd_others>>
\* lines 407-418
UniqueSingleValueCheck ==
    /\ Check("unique single value",
             /\ vd_cfg.unique_single_value_columns # {}
             /\ DuplicatedEntriesSingleValueColumns(vd_df, vd_cfg.unique_single_value_columns) # {},
             "duplicate information", "unique multi value")
    /\ UNCHANGED <<vd_requests, vd_invalid, vd_others>>
\* lines 419-430: the call of duplicated_entries_multi_value_columns either
\* raises, and the exception leaves validate_df, or returns a dictionary
UniqueMultiValueCheck ==
    LET duplicates ==
            DuplicatedEntriesMultiValueColumns(vd_df, vd_cfg.unique_multi_value_columns)
    IN  IF vd_cfg.unique_multi_value_columns # {} /\ duplicates.raised # ""
        THEN /\ vd_pc = "unique multi value"
             /\ vd_ran' = Append(vd_ran, "unique multi value")
             /\ vd_pc' = "raised"
             /\ vd_raised' = duplicates.raised
             /\ UNCHANGED <<vd_df, vd_cfg, vd_result, vd_stderr, vd_requests, vd_invalid, vd_others>>
        ELSE /\ Check("unique multi value",
                      vd_cfg.unique_multi_value_columns # {} /\ duplicates.value # {},
                      "duplicate information", "urls")
             /\ UNCHANGED <<vd_requests, vd_invalid, vd_others>>
\* lines 432-444: check_urls answers for each of the unique urls
UrlsCheck ==
    LET unique_urls ==
            GetMultiColumnData(vd_df, vd_cfg.url_columns, vd_cfg.multi_url_columns)
    IN  \E invalid_urls \in SUBSET unique_urls :
            /\ Check("urls", invalid_urls # {}, "incorrect urls", "dois")
            /\ vd_requests' = vd_requests \cup {<<"url", u>> : u \in unique_urls}
            /\ vd_invalid' = vd_invalid \cup {<<"url", u>> : u \in invalid_urls}
            /\ UNCHANGED vd_others
\* lines 446-459
DoisCheck ==
    LET unique_dois ==
            GetMultiColumnData(vd_df, vd_cfg.doi_columns, vd_cfg.multi_doi_columns)
    IN  \E invalid_dois \in SUBSET unique_dois :
            /\ Check("dois", invalid_dois # {}, "incorrect dois", "column_is_in")
            /\ vd_requests' = vd_requests \cup {<<"https://doi.org/", d>> : d \in unique_dois}
            /\ vd_invalid' = vd_invalid \cup {<<"https://doi.org/", d>> : d \in invalid_dois}
            /\ UNCHANGED vd_others
\* lines 461-480
ColumnIsInCheck ==
    LET unexpected_values == UnexpectedValues(vd_df, vd_cfg.column_is_in)
    IN  /\ Check("column_is_in",
                 \E c \in DOMAIN unexpected_values : unexpected_values[c] # {},
                 "unexpected entry values", "multi_value_column_is_in")
        /\ UNCHANGED <<vd_requests, vd_invalid, vd_others>>
\* lines 481-512: the last check; without a problem validate_df returns 0
MultiValueColumnIsInCheck ==
    LET unexpected_values == UnexpectedMultiValues(vd_df, vd_cfg.multi_value_column_is_in)
        problem == \E c \in DOMAIN unexpected_values : unexpected_values[c] # {}
    IN  /\ vd_pc = "multi_value_column_is_in"
        /\ vd_ran' = Append(vd_ran, "multi_value_column_is_in")
        /\ IF problem
           THEN PrintAndReturn1("unexpected entry values")
           ELSE /\ vd_result' = 0
                /\ vd_pc' = "returned"
                /\ UNCHANGED <<vd_stderr, vd_raised>>
        /\ UNCHANGED <<vd_df, vd_cfg, vd_requests, vd_invalid, vd_others>>

vd_Next ==
    \/ ConfigurationCheck
    \/ ColumnNamesCheck
    \/ WhitespaceCheck
    \/ RequiredContentCheck
    \/ UniqueSingleValueCheck
    \/ UniqueMultiValueCheck
    \/ UrlsCheck
    \/ DoisCheck
    \/ ColumnIsInCheck
    \/ MultiValueColumnIsInCheck

(***************************************************************************)
(* validate_zenodo_json.                                                   *)
(***************************************************************************)
\* lines 66-74
json_key_types ==
    [title |-> "str", upload_type |-> "str", description |-> "str", creators |-> "list",
     grants |-> "list", keywords |-> "list", license |-> "dict"]
\* line 89
required_information == {"affiliation", "name", "orcid"}
\* lines 118-120
FirstOrcid == "0000-0003-0315-7727"
LastOrcid == "0000-0003-4379-8967"
SecondToLastOrcid == "0000-0003-1495-9143"

\* x.strip() == "" for the strings of the model
StripIsEmpty(x) == x \in {"", " "}
\* the names of the model in the order of Python's string comparison
NameOrder == <<" ", "Alice", "Andrea Radtke", "Bob", "Ronald Germain", "Ziv Yaniv">>
NameLess(x, y) ==
    \E i \in 1..Len(NameOrder), j \in 1..Len(NameOrder) :
        NameOrder[i] = x /\ NameOrder[j] = y /\ i < j

\* The creators a file may list: the three with a fixed place, two others,
\* one without an orcid entry and one with a blank name.
Creators ==
    {[affiliation |-> "NIH", name |-> "Ziv Yaniv", orcid |-> FirstOrcid],
     [affiliation |-> "NIH", name |-> "Ronald Germain", orcid |-> SecondToLastOrcid],
     [affiliation |-> "NIH", name |-> "Andrea Radtke", orcid |-> LastOrcid],
     [affiliation |-> "U", name |-> "Alice", orcid |-> "0000-0000-0000-0001"],
     [affiliation |-> "U", name |-> "Bob", orcid |-> "0000-0000-0000-0002"],
     [affiliation |-> "U", name |-> "Alice"],
     [affiliation |-> "U", name |-> " ", orcid |-> "0000-0000-0000-0003"]}
\* the three creators with a fixed place, in their places
SortedCreators ==
    <<[affiliation |-> "NIH", name |-> "Ziv Yaniv", orcid |-> FirstOrcid],
      [affiliation |-> "NIH", name |-> "Ronald Germain", orcid |-> SecondToLastOrcid],
      [affiliation |-> "NIH", name |-> "Andrea Radtke", orcid |-> LastOrcid]>>
Grants == {[id |-> "10.13039/1"], [id |-> " "]}
SeqsUpTo(S, n) == UNION {[1..k -> S] : k \in 0..n}
\* a file with the expected keys and types
ZenodoDict(creators, grants) ==
    [keys |-> DOMAIN json_key_types, types |-> json_key_types,
     creators |-> creators, grants |-> grants]
\* The files: with the expected keys and types and either any creators and
\* no grant or the three creators with a fixed place and any grants; without
\* the license key; with creators that are not a list.
ZenodoDicts ==
    {ZenodoDict(c, <<>>) : c \in SeqsUpTo(Creators, MaxCreators)}
    \cup {ZenodoDict(SortedCreators, g) : g \in SeqsUpTo(Grants, MaxGrants)}
    \cup {[keys |-> DOMAIN json_key_types \ {"license"},
           types |-> [k \in DOMAIN json_key_types \ {"license"} |-> json_key_types[k]],
           creators |-> <<>>, grants |-> <<>>],
          [keys |-> DOMAIN json_key_types,
           types |-> [json_key_types EXCEPT !.creators = "dict"],
           creators |-> <<>>, grants |-> <<>>]}

\* lines 103 and 140-142 as if an entry were compared with the entry before it only
DuplicatesOfPrevious(entries) ==
    SelectSeq([n \in 1..Len(entries) |->
                  [entry |-> entries[n],
                   seen |-> n > 1 /\ entries[n - 1] = entries[n]]],
              LAMBDA e : e.seen)
\* lines 103 and 140-142: the entries that an earlier entry equals
Duplicates(entries) ==
    SelectSeq([n \in 1..Len(entries) |->
                  [entry |-> entries[n],
                   seen |-> \E m \in 1..(n - 1) : entries[m] = entries[n]]],
              LAMBDA e : e.seen)
\* creators[1:-2]
Middle(creators) ==
    IF Len(creators) <= 3 THEN <<>> ELSE SubSeq(creators, 2, Len(creators) - 2)
RECURSIVE Insert(_, _)
Insert(sorted, creator) ==
    IF sorted = <<>> THEN <<creator>>
    ELSE IF NameLess(creator.name, sorted[Len(sorted)].name)
         THEN Append(Insert(SubSeq(sorted, 1, Len(sorted) - 1), creator),
                     sorted[Len(sorted)])
         ELSE Append(sorted, creator)
\* the list as it is, not sorted
NotSorted(creators) == creators
RECURSIVE SortedByName(_)
\* sorted(creators, key=name): a stable sort
SortedByName(creators) ==
    IF creators = <<>> THEN <<>>
    ELSE Insert(SortedByName(SubSeq(creators, 1, Len(creators) - 1)),
                creators[Len(creators)])

zj_Init ==
    /\ zj_dict \in ZenodoDicts
    /\ zj_pc = "keys"
    /\ zj_result = NoResult
    /\ zj_raised = ""
    /\ zj_stdout = <<>>
    /\ zj_stderr = <<>>
    /\ zj_requests = {}
zj_Off ==
    /\ zj_dict = [keys |-> {}, types |-> <<>>, creators |-> <<>>, grants |-> <<>>]
    /\ zj_pc = "off"
    /\ zj_result = NoResult
    /\ zj_raised = ""
    /\ zj_stdout = <<>>
    /\ zj_stderr = <<>>
    /\ zj_requests = {}

\* print(message); return 1
PrintReturn1(message) ==
    /\ zj_stdout' = Append(zj_stdout, message)
    /\ zj_result' = 1
    /\ zj_pc' = "returned"
    /\ UNCHANGED <<zj_stderr, zj_raised>>
ZenodoCheck(name, problem, message, next) ==
    /\ zj_pc = name
    /\ IF problem
       THEN PrintReturn1(message)
       ELSE /\ zj_pc' = next
            /\ UNCHANGED <<zj_stdout, zj_stderr, zj_result, zj_raised>>
    /\ UNCHANGED zj_dict

\* lines 75-85
KeysAndTypes ==
    /\ ZenodoCheck("keys",
                   \/ zj_dict.keys # DOMAIN json_key_types
                   \/ \E key \in DOMAIN json_key_types : zj_dict.types[key] # json_key_types[key],
                   IF zj_dict.keys # DOMAIN json_key_types
                   THEN "Unexpected or missing key types" ELSE "Unexpected entry type",
                   "creators information")
    /\ UNCHANGED <<zj_requests, zj_others>>
\* lines 87-100
CreatorsInformation ==
    /\ ZenodoCheck("creators information",
                   \E n \in 1..Len(zj_dict.creators) :
                       LET data == zj_dict.creators[n]
                       IN  \/ ~(required_information \subseteq DOMAIN data)
                           \/ StripIsEmpty(data.affiliation)
                           \/ StripIsEmpty(data.name)
                           \/ StripIsEmpty(data.orcid),
                   "Missing required information in creators section",
                   "creators unique")
    /\ UNCHANGED <<zj_requests, zj_others>>
\* lines 101-106
CreatorsUnique ==
    /\ ZenodoCheck("creators unique",
                   Duplicates([n \in 1..Len(zj_dict.creators) |-> zj_dict.creators[n].orcid])
                       # <<>>,
                   "Duplicate entries in creators section", "orcid urls")
    /\ UNCHANGED <<zj_requests, zj_others>>
\* lines 107-114: check_urls answers for the url of each creator in turn
OrcidUrls ==
    \E orcid_urls_exist \in [1..Len(zj_dict.creators) -> BOOLEAN] :
        /\ ZenodoCheck("orcid urls",
                       \E n \in 1..Len(zj_dict.creators) : ~orcid_urls_exist[n],
                       "The ORCID for the following entries is incorrect", "creators order")
        /\ zj_requests' = zj_requests \cup
               {<<"https://orcid.org/", zj_dict.creators[n].orcid>> :
                   n \in 1..Len(zj_dict.creators)}
        /\ UNCHANGED zj_others
\* lines 115-130: creators[0] of an empty list raises IndexError; with a single
\* creator the condition is decided before creators[-2] is evaluated
CreatorsOrder ==
    LET creators == zj_dict.creators IN
    IF creators = <<>>
    THEN /\ zj_pc = "creators order"
         /\ zj_pc' = "raised"
         /\ zj_raised' = "IndexError"
         /\ UNCHANGED <<zj_dict, zj_result, zj_stdout, zj_stderr, zj_requests, zj_others>>
    ELSE /\ ZenodoCheck("creators order",
                        \/ creators[1].orcid # FirstOrcid
                        \/ creators[Len(creators)].orcid # LastOrcid
                        \/ creators[Len(creators) - 1].orcid # SecondToLastOrcid
                        \/ Middle(creators) # SortedByName(Middle(creators)),
                        "Order in creators list is not as expected", "grants")
         /\ UNCHANGED <<zj_requests, zj_others>>
\* lines 132-146
GrantsCheck ==
    LET grants == zj_dict.grants
        blank == \E n \in 1..Len(grants) : StripIsEmpty(grants[n].id)
        duplicates == Duplicates([n \in 1..Len(grants) |-> grants[n].id])
    IN  /\ zj_pc = "grants"
        /\ IF blank THEN PrintReturn1("Missing required information in grants section")
           ELSE IF duplicates # <<>> THEN PrintReturn1("Duplicate entries in grants section")
           ELSE /\ zj_result' = 0
                /\ zj_pc' = "returned"
                /\ UNCHANGED <<zj_stdout, zj_stderr, zj_raised>>
        /\ UNCHANGED <<zj_dict, zj_requests, zj_others>>

zj_Next ==
    \/ KeysAndTypes
    \/ CreatorsInformation
    \/ CreatorsUnique
    \/ OrcidUrls
    \/ CreatorsOrder
    \/ GrantsCheck

(***************************************************************************)
(* validate_bib_file_data.  A file is a sequence of blocks: entries,       *)
(* entries with a syntax error, and comments.                              *)
(***************************************************************************)
BibIds == {"k1", "k2"}
\* the field names of an entry as the file writes them
BibFieldSets ==
    {{"author", "title", "year", "doi", "note"},
     {"Author", "title", "year", "DOI", "note"},
     {"author", "title", "year", "doi"},
     {"author", "title", "year"}}
BibEntry(id, fields) == [kind |-> "entry", ID |-> id, fields |-> fields]
MalformedEntry == [kind |-> "malformed", ID |-> "", fields |-> {}]
BibComment == [kind |-> "comment", ID |-> "", fields |-> {}]
BibBlocks ==
    {BibEntry(id, fields) : id \in BibIds, fields \in BibFieldSets}
        \cup {MalformedEntry, BibComment}
BibFiles == UNION {[1..k -> BibBlocks] : k \in 0..MaxBlocks}

\* lines 38-46, bibtexparser.load: the entries without a syntax error, each
\* with the keys ENTRYTYPE and ID besides its fields, and as comments the
\* entries with a syntax error and the comments of the file
Load(file) ==
    [comments |-> SelectSeq(file, LAMBDA b : b.kind # "entry"),
     entries |-> LET entries == SelectSeq(file, LAMBDA b : b.kind = "entry")
                 IN  [n \in 1..Len(entries) |->
                         [ID |-> entries[n].ID,
                          keys |-> {"ENTRYTYPE", "ID"} \cup entries[n].fields]]]

\* str.casefold() left out
NoCasefold(k) == k
\* line 68, str.casefold() on the keys of the model
Casefold(k) ==
    CASE k = "ENTRYTYPE" -> "entrytype"
      [] k = "ID" -> "id"
      [] k = "Author" -> "author"
      [] k = "DOI" -> "doi"
      [] OTHER -> k
\* line 56
required_entry_keys == {"id", "author", "title", "year", "doi", "note"}
\* lines 68-69: the entries without one of the required keys
MissingFields(entries) ==
    {n \in 1..Len(entries) :
        ~(required_entry_keys \subseteq {Casefold(k) : k \in entries[n].keys})}
\* lines 59-65 and 75: the ids counted more than once
DuplicateKeys(entries) ==
    {id \in {entries[n].ID : n \in 1..Len(entries)} :
        Cardinality({n \in 1..Len(entries) : entries[n].ID = id}) > 1}

bf_Init ==
    /\ bf_file \in BibFiles
    /\ bf_pc = "call"
    /\ bf_result = NoResult
    /\ bf_stderr = <<>>
bf_Off ==
    /\ bf_file = <<>>
    /\ bf_pc = "off"
    /\ bf_result = NoResult
    /\ bf_stderr = <<>>

\* lines 36-81
validate_bib_file_data ==
    LET bib_database == Load(bf_file)
        message ==
            IF bib_database.comments # <<>> THEN "Malformed bibtex entries"
            ELSE IF MissingFields(bib_database.entries) # {} THEN "missing required fields"
            ELSE IF DuplicateKeys(bib_database.entries) # {} THEN "Duplicate keys"
            ELSE ""
    IN  /\ bf_pc = "call"
        /\ bf_pc' = "returned"
        /\ bf_result' = IF message = "" THEN 0 ELSE 1
        /\ bf_stderr' = IF message = "" THEN bf_stderr ELSE Append(bf_stderr, message)
        /\ UNCHANGED <<bf_file, bf_others>>

bf_Next == validate_bib_file_data

(***************************************************************************)
(* validate_reagent_resources                                              *)
(* (data_validation/validate_reagent_resources.py).  It fills the          *)
(* configuration with the creator ORCIDs and the vendor names, calls       *)
(* validate_df (the vd_ variables hold the call) and goes on with its own  *)
(* checks.  An ORCID is a string of one character here.                    *)
(***************************************************************************)
\* line 54
MAX_ORCID_ENTRIES == 5
NA == <<"N", "A">>
ReagentColumns == {"Target Name / Protein Biomarker", "Conjugate", "Vendor",
                   "Contributor", "Agree", "Disagree"}
\* the "orcid" values of the creators of the .zenodo.json file
ZenodoOrcids == {<<"1">>, <<"2">>, <<"3">>, <<"4">>, <<"5">>, <<"6", " ">>}
\* the Vendor column of the vendors csv file
VendorNames == {<<"v">>}

\* a cell that lists the entries with ";" between them
RECURSIVE JoinCell(_)
JoinCell(entries) ==
    IF Len(entries) = 0 THEN <<>>
    ELSE IF Len(entries) = 1 THEN entries[1]
    ELSE entries[1] \o <<";">> \o JoinCell(Tail(entries))
ReagentRow(conjugate, vendor, contributor, agree, disagree) ==
    ("Target Name / Protein Biomarker" :> <<"t">>) @@ ("Conjugate" :> conjugate)
    @@ ("Vendor" :> vendor) @@ ("Contributor" :> contributor)
    @@ ("Agree" :> JoinCell(agree)) @@ ("Disagree" :> JoinCell(disagree))
\* The rows of the csv file: rows that pass every check, for two conjugates,
\* and rows with an unknown ORCID ("9") as Contributor, in Agree or in
\* Disagree, with an unknown vendor, with the Contributor in neither list,
\* with an ORCID in both lists, with an ORCID twice in a list, and with
\* MAX_ORCID_ENTRIES and MAX_ORCID_ENTRIES + 1 ORCIDs in a list.
OneToFive == <<<<"1">>, <<"2">>, <<"3">>, <<"4">>, <<"5">>>>
ReagentRows ==
    {ReagentRow(<<"c">>, <<"v">>, <<"1">>, <<<<"1">>>>, <<NA>>),
     ReagentRow(<<"d", " ", "e">>, <<"v">>, <<"1">>, <<<<"1">>>>, <<NA>>),
     ReagentRow(<<"c">>, <<"v">>, <<"2">>, <<<<"1">>, <<"2">>>>, <<NA>>),
     ReagentRow(<<"c">>, <<"v">>, <<"1">>, <<NA>>, <<<<"1">>>>),
     ReagentRow(<<"c">>, <<"v">>, <<"1">>, <<<<"1">>>>, <<<<"1">>>>),
     ReagentRow(<<"c">>, <<"v">>, <<"1">>, <<<<"2">>>>, <<NA>>),
     ReagentRow(<<"c">>, <<"v">>, <<"9">>, <<<<"9">>>>, <<NA>>),
     ReagentRow(<<"c">>, <<"v">>, <<"9">>, <<<<"1">>>>, <<NA>>),
     ReagentRow(<<"c">>, <<"v">>, <<"1">>, <<<<"1">>, <<"9">>>>, <<NA>>),
     ReagentRow(<<"c">>, <<"v">>, <<"1">>, <<<<"1">>>>, <<<<"9">>>>),
     ReagentRow(<<"c">>, <<"v">>, <<"1">>, OneToFive, <<NA>>),
     ReagentRow(<<"c">>, <<"v">>, <<"1">>, Append(OneToFive, <<"6">>), <<NA>>),
     ReagentRow(<<"c">>, <<"v">>, <<"1">>, <<NA>>, Append(OneToFive, <<"6">>)),
     ReagentRow(<<"c">>, <<"v">>, <<"1">>, <<<<"1">>, <<"1">>>>, <<NA>>),
     ReagentRow(<<"c">>, <<"w">>, <<"1">>, <<<<"1">>>>, <<NA>>)}
ReagentDataFrames ==
    {[columns |-> ReagentColumns, rows |-> rows] :
        rows \in UNION {[1..n -> ReagentRows] : n \in 1..MaxRows}}

\* The JSON configuration file, a dictionary: every column is required; the
\* keys unique_multi_value_columns, column_is_in and multi_value_column_is_in
\* are there or not, the last two with a list that is not the list of the
\* creator ORCIDs.
ReagentConfiguration(unique, single, multi) ==
    ("data_required_column_names" :> ReagentColumns)
    @@ (IF unique THEN "unique_multi_value_columns" :> {"Agree"} ELSE <<>>)
    @@ (IF single THEN "column_is_in" :> ("Contributor" :> {<<"9">>}) ELSE <<>>)
    @@ (IF multi THEN "multi_value_column_is_in" :> ("Agree" :> {<<"9">>}) ELSE <<>>)
ReagentConfigurations ==
    {ReagentConfiguration(unique, single, multi) :
        unique \in BOOLEAN, single \in BOOLEAN, multi \in BOOLEAN}

\* line 69
Orcids == {Strip(orcid) : orcid \in ZenodoOrcids} \cup {NA}
\* lines 77-82: in the else branch the second assignment replaces the
\* dictionary of the first
ColumnIsIn(configuration_dict) ==
    IF "column_is_in" \in DOMAIN configuration_dict
    THEN SetItem(configuration_dict, "column_is_in",
                 SetItem(SetItem(configuration_dict["column_is_in"], "Contributor", Orcids),
                         "Vendor", VendorNames))
    ELSE SetItem(SetItem(configuration_dict, "column_is_in", "Contributor" :> Orcids),
                 "column_is_in", "Vendor" :> VendorNames)
\* lines 84-91
MultiValueColumnIsIn(configuration_dict) ==
    IF "multi_value_column_is_in" \in DOMAIN configuration_dict
    THEN SetItem(configuration_dict, "multi_value_column_is_in",
                 SetItem(SetItem(configuration_dict["multi_value_column_is_in"],
                                 "Agree", Orcids),
                         "Disagree", Orcids))
    ELSE SetItem(configuration_dict, "multi_value_column_is_in",
                 ("Agree" :> Orcids) @@ ("Disagree" :> Orcids))
\* validate_df(df, **configuration_dict): the keyword arguments, with the
\* default of every parameter the dictionary does not name
KeywordArguments(configuration_dict) ==
    LET Get(key, default) ==
            IF key \in DOMAIN configuration_dict THEN configuration_dict[key] ELSE default
    IN  [data_required_column_names |-> configuration_dict["data_required_column_names"],
         data_optional_column_names |-> Get("data_optional_column_names", {}),
         unique_single_value_columns |-> Get("unique_single_value_columns", {}),
         unique_multi_value_columns |-> Get("unique_multi_value_columns", {}),
         url_columns |-> Get("url_columns", {}),
         multi_url_columns |-> Get("multi_url_columns", {}),
         doi_columns |-> Get("doi_columns", {}),
         multi_doi_columns |-> Get("multi_doi_columns", {}),
         column_is_in |-> Get("column_is_in", <<>>),
         multi_value_column_is_in |-> Get("multi_value_column_is_in", <<>>)]

\* line 99: a row without the columns Contributor, Agree and Disagree
RawRow(row) == [c \in DOMAIN row \ {"Contributor", "Agree", "Disagree"} |-> row[c]]
\* lines 99-103: the rows that raw_df.duplicated(keep=False) marks
DuplicatedIndexes(df) ==
    {n \in 1..Len(df.rows) :
        \E m \in 1..Len(df.rows) : m # n /\ RawRow(df.rows[m]) = RawRow(df.rows[n])}
\* lines 118 and 121: [v.strip() for v in x.split(";") if v.strip() not in ["", "NA"]]
OrcidList(x) ==
    LET pieces == Split(x) IN
    SelectSeq([n \in 1..Len(pieces) |-> Strip(pieces[n])], LAMBDA v : v \notin {<<>>, NA})
Agree(df, n) == OrcidList(df.rows[n]["Agree"])
Disagree(df, n) == OrcidList(df.rows[n]["Disagree"])
\* lines 123-127 as if the lists of every row were searched
ContributorInNoRow(df) ==
    {n \in 1..Len(df.rows) :
        \A m \in 1..Len(df.rows) :
            df.rows[n]["Contributor"] \notin Range(Agree(df, m) \o Disagree(df, m))}
\* lines 123-127
ContributorProblemRows(df) ==
    {n \in 1..Len(df.rows) :
        df.rows[n]["Contributor"] \notin Range(Agree(df, n) \o Disagree(df, n))}
\* lines 136-142 as if only the Agree list were counted
TooManyAgreeEntriesRows(df) ==
    {n \in 1..Len(df.rows) : Len(Agree(df, n)) > MAX_ORCID_ENTRIES}
\* lines 136-142
TooManyEntriesRows(df) ==
    {n \in 1..Len(df.rows) :
        Len(Agree(df, n)) > MAX_ORCID_ENTRIES \/ Len(Disagree(df, n)) > MAX_ORCID_ENTRIES}
\* lines 152-156
AgreeAndDisagreeRows(df) ==
    {n \in 1..Len(df.rows) : Range(Agree(df, n)) \cap Range(Disagree(df, n)) # {}}

\* lines 226-241
invalid_chars == {" ", "\t", "/", "\\", "{", "}", "[", "]", "(", ")", "<", ">", ":", "&"}
\* lines 202-209
replace_char_list(input_str, change_chars_list, replacement_char) ==
    [n \in 1..Len(input_str) |->
        IF input_str[n] \in change_chars_list THEN replacement_char ELSE input_str[n]]
\* lines 169-171
UniqueTargetConjugate(df) ==
    {<<df.rows[n]["Target Name / Protein Biomarker"], df.rows[n]["Conjugate"]>> :
        n \in 1..Len(df.rows)}
\* lines 245-248
TcRows(df, target_conjugate) ==
    {n \in 1..Len(df.rows) :
        /\ df.rows[n]["Target Name / Protein Biomarker"] = target_conjugate[1]
        /\ df.rows[n]["Conjugate"] = target_conjugate[2]}
\* lines 250-252
SupportingOrcids(df, target_conjugate) ==
    UNION {Range(Agree(df, n)) \cup Range(Disagree(df, n)) : n \in TcRows(df, target_conjugate)}
        \ {NA}
\* lines 254-260: the directory of the pair under the root directory
DataPath(target_conjugate) ==
    replace_char_list(target_conjugate[1] \o <<"_">> \o target_conjugate[2], invalid_chars, "_")
\* lines 262-265: the files of the pair, <<directory, orcid>> for
\* directory/orcid.md
FileNamesSkippingFirst(df, target_conjugate) ==
    {<<DataPath(target_conjugate), orcid>> :
        orcid \in SupportingOrcids(df, target_conjugate) \ {<<"1">>}}
FileNames(df, target_conjugate) ==
    {<<DataPath(target_conjugate), orcid>> : orcid \in SupportingOrcids(df, target_conjugate)}
\* lines 243-350: 1 if a file of the pair does not exist (lines 266-269) or its
\* content does not match the rows of the pair or cannot be read (lines 282-349)
SupportingStatus(df, target_conjugate, files) ==
    IF \E f \in FileNames(df, target_conjugate) :
            f \notin DOMAIN files \/ files[f] # "consistent"
    THEN 1 ELSE 0
\* lines 179-184
MdFilePathsFromCsv(df) ==
    UNION {FileNames(df, target_conjugate) : target_conjugate \in UniqueTargetConjugate(df)}
\* a markdown file under the root that no row of the model asks for
OtherMdFiles == {<<<<"t", "_", "c">>, <<"9">>>>}
\* What the supporting material directory may hold when it is read: any of
\* the expected files and of the other files, each expected file with a
\* content that matches the csv file or not.
SupportingMaterialDirs(df) ==
    UNION {[present -> {"consistent", "inconsistent"}] :
                present \in SUBSET (MdFilePathsFromCsv(df) \cup OtherMdFiles)}

rr_Init ==
    /\ rr_df \in ReagentDataFrames
    /\ rr_config \in ReagentConfigurations
    /\ rr_pc = "configure"
    /\ rr_result = NoResult
    /\ rr_raised = ""
    /\ rr_stdout = <<>>
    /\ rr_files = <<>>
    /\ rr_ran = <<>>
rr_Off ==
    /\ rr_df = [columns |-> {}, rows |-> <<>>]
    /\ rr_config = <<>>
    /\ rr_pc = "off"
    /\ rr_result = NoResult
    /\ rr_raised = ""
    /\ rr_stdout = <<>>
    /\ rr_files = <<>>
    /\ rr_ran = <<>>

\* print(...); return 1
ReagentPrintReturn1(message) ==
    /\ rr_stdout' = Append(rr_stdout, message)
    /\ rr_result' = 1
    /\ rr_pc' = "returned"
\* one check of the body after validate_df
ReagentCheck(name, problem, message, next) ==
    /\ rr_pc = name
    /\ rr_ran' = Append(rr_ran, name)
    /\ IF problem THEN ReagentPrintReturn1(message)
       ELSE /\ rr_pc' = next
            /\ UNCHANGED <<rr_stdout, rr_result>>
    /\ UNCHANGED <<rr_df, rr_config, rr_raised, rr_files>>

\* lines 59-93: the configuration is completed and validate_df is called
CallValidateDf ==
    /\ rr_pc = "configure"
    /\ rr_pc' = "validate_df"
    /\ vd_df' = rr_df
    /\ vd_cfg' = KeywordArguments(MultiValueColumnIsIn(ColumnIsIn(rr_config)))
    /\ vd_pc' = Checks[1]
    /\ UNCHANGED <<vd_result, vd_raised, vd_stderr, vd_ran, vd_requests, vd_invalid>>
    /\ UNCHANGED <<rr_df, rr_config, rr_result, rr_raised, rr_stdout, rr_files, rr_ran>>
    /\ UNCHANGED rr_callee_others
\* lines 93-96: validate_df returns, or its exception leaves the function
BasicValidationResult ==
    /\ rr_pc = "validate_df"
    /\ vd_pc \in {"returned", "raised"}
    /\ IF vd_pc = "raised"
       THEN /\ rr_pc' = "raised"
            /\ rr_raised' = vd_raised
            /\ UNCHANGED rr_result
       ELSE IF vd_result # 0
       THEN /\ rr_pc' = "returned"
            /\ rr_result' = vd_result
            /\ UNCHANGED rr_raised
       ELSE /\ rr_pc' = "repeated rows"
            /\ UNCHANGED <<rr_result, rr_raised>>
    /\ UNCHANGED <<rr_df, rr_config, rr_stdout, rr_files, rr_ran, rr_others>>
\* lines 98-109
RepeatedRowsCheck ==
    /\ ReagentCheck("repeated rows", DuplicatedIndexes(rr_df) # {},
                    "rows are duplicates", "contributor")
    /\ UNCHANGED rr_others
\* lines 111-134
ContributorCheck ==
    /\ ReagentCheck("contributor", ContributorProblemRows(rr_df) # {},
                    "Contributor does not appear in Agree or Disagree", "max entries")
    /\ UNCHANGED rr_others
\* lines 135-149
MaxEntriesCheck ==
    /\ ReagentCheck("max entries", TooManyEntriesRows(rr_df) # {},
                    "larger than the maximal allowed", "agree and disagree")
    /\ UNCHANGED rr_others
\* lines 151-165: with a problem row, the comprehension of lines 158-160
\* iterates over a row index, an integer, which raises TypeError
AgreeAndDisagreeCheck ==
    /\ rr_pc = "agree and disagree"
    /\ rr_ran' = Append(rr_ran, "agree and disagree")
    /\ IF AgreeAndDisagreeRows(rr_df) # {}
       THEN /\ rr_pc' = "raised"
            /\ rr_raised' = "TypeError"
       ELSE /\ rr_pc' = "supporting material"
            /\ UNCHANGED rr_raised
    /\ UNCHANGED <<rr_df, rr_config, rr_result, rr_stdout, rr_files, rr_others>>
\* lines 167-199: the directory is read; every pair of target and conjugate
\* is validated, then the markdown files under the root are listed
SupportingMaterialCheck ==
    /\ rr_pc = "supporting material"
    /\ rr_ran' = Append(rr_ran, "supporting material")
    /\ \E files \in SupportingMaterialDirs(rr_df) :
        LET status ==
                IF \E target_conjugate \in UniqueTargetConjugate(rr_df) :
                        SupportingStatus(rr_df, target_conjugate, files) # 0
                THEN 1 ELSE 0
            superfluous_md_files == DOMAIN files \ MdFilePathsFromCsv(rr_df)
        IN  /\ rr_files' = files
            /\ IF status # 0
               THEN ReagentPrintReturn1("does not exist or does not match")
               ELSE IF superfluous_md_files # {}
               THEN ReagentPrintReturn1("files are superfluous")
               ELSE /\ rr_result' = 0
                    /\ rr_pc' = "returned"
                    /\ UNCHANGED rr_stdout
    /\ UNCHANGED <<rr_df, rr_config, rr_raised, rr_others>>

rr_Next ==
    \/ CallValidateDf
    \/ vd_Next
    \/ BasicValidationResult
    \/ RepeatedRowsCheck
    \/ ContributorCheck
    \/ MaxEntriesCheck
    \/ AgreeAndDisagreeCheck
    \/ SupportingMaterialCheck

(***************************************************************************)
(* validate_videos (data_validation/validate_videos.py).  It sets the      *)
(* allowed values of the Contributors column to the creator ORCIDs and     *)
(* returns what validate_df returns (the vd_ variables hold the call).     *)
(***************************************************************************)
VideoColumns == {"Title", "Contributors"}
\* The Contributors cells of the csv file: listed ORCIDs, an unknown ORCID
\* ("9") alone, after a listed one and twice, an entry with a space in front
\* and an empty entry.
ContributorsValues ==
    {<<"1">>, <<"1", ";", "2">>, <<"9">>, <<"1", ";", "9">>, <<"9", ";", "9">>,
     <<"1", ";", " ", "2">>, <<"1", ";", ";", "2">>}
VideoDataFrames ==
    {[columns |-> VideoColumns, rows |-> rows] :
        rows \in UNION {[1..n -> {("Title" :> <<"x">>) @@ ("Contributors" :> v) :
                                    v \in ContributorsValues}] : n \in 1..MaxRows}}
\* The JSON configuration file: both columns are required; the key
\* unique_multi_value_columns is there or not; the key multi_value_column_is_in
\* is missing, or there with a list for Contributors, or there for another
\* column only.
VideoMultiValueColumnIsIn ==
    {<<>>,
     "multi_value_column_is_in" :> ("Contributors" :> {<<"9">>}),
     "multi_value_column_is_in" :> ("Title" :> {<<"x">>})}
VideoConfigurations ==
    {("data_required_column_names" :> VideoColumns)
        @@ (IF unique THEN "unique_multi_value_columns" :> {"Contributors"} ELSE <<>>)
        @@ multi :
            unique \in BOOLEAN, multi \in VideoMultiValueColumnIsIn}
\* line 43
VideoOrcids == {Strip(orcid) : orcid \in ZenodoOrcids}
\* lines 45-48
ContributorsIsIn(configuration_dict) ==
    IF "multi_value_column_is_in" \in DOMAIN configuration_dict
    THEN SetItem(configuration_dict, "multi_value_column_is_in",
                 SetItem(configuration_dict["multi_value_column_is_in"],
                         "Contributors", VideoOrcids))
    ELSE SetItem(configuration_dict, "multi_value_column_is_in",
                 "Contributors" :> VideoOrcids)

vv_Init ==
    /\ vv_df \in VideoDataFrames
    /\ vv_config \in VideoConfigurations
    /\ vv_pc = "configure"
    /\ vv_result = NoResult
    /\ vv_raised = ""
vv_Off ==
    /\ vv_df = [columns |-> {}, rows |-> <<>>]
    /\ vv_config = <<>>
    /\ vv_pc = "off"
    /\ vv_result = NoResult
    /\ vv_raised = ""

\* lines 33-49: the configuration is completed and validate_df is called
VideosCallValidateDf ==
    /\ vv_pc = "configure"
    /\ vv_pc' = "validate_df"
    /\ vd_df' = vv_df
    /\ vd_cfg' = KeywordArguments(ContributorsIsIn(vv_config))
    /\ vd_pc' = Checks[1]
    /\ UNCHANGED <<vd_result, vd_raised, vd_stderr, vd_ran, vd_requests, vd_invalid>>
    /\ UNCHANGED <<vv_df, vv_config, vv_result, vv_raised>>
    /\ UNCHANGED vv_callee_others
\* line 49: return validate_df(...), or its exception leaves the function
VideosReturn ==
    /\ vv_pc = "validate_df"
    /\ vd_pc \in {"returned", "raised"}
    /\ IF vd_pc = "raised"
       THEN /\ vv_pc' = "raised"
            /\ vv_raised' = vd_raised
            /\ UNCHANGED vv_result
       ELSE /\ vv_pc' = "returned"
            /\ vv_result' = vd_result
            /\ UNCHANGED vv_raised
    /\ UNCHANGED <<vv_df, vv_config, vv_others>>

vv_Next ==
    \/ VideosCallValidateDf
    \/ vd_Next
    \/ VideosReturn

(***************************************************************************)
(* create_release_notes.py: main and create_release_notes.  A line of      *)
(* CHANGELOG.md is one of: the header "## <release_tag>" of the given      *)
(* release ("current"), the header of a release whose tag starts with the  *)
(* given tag, as "## v1.0.10" for v1.0.1 ("longer"), the header of another *)
(* release ("other"), a line of notes ("note"), a line of whitespace       *)
(* ("blank").                                                              *)
(***************************************************************************)
LineKinds == {"current", "longer", "other", "note", "blank"}
\* CHANGELOG.md: there or not, and its lines
NoFile == [exists |-> FALSE, lines |-> <<>>]
Changelogs ==
    {[exists |-> TRUE, lines |-> lines] : lines \in UNION {[1..n -> LineKinds] : n \in 0..MaxLines}}
\* line 44: current_release_pattern.match(line), a match at the start of the line
MatchesCurrentRelease(line) == line \in {"current", "longer"}
\* line 45: release_pattern.match(line)
MatchesRelease(line) == line \in {"current", "longer", "other"}
\* lines 49-60: the lines appended to release_notes from line i of the file
\* on; ReadNotes is the outer loop, ReadSection the inner one, which reads one
\* more line after the header that ends the section
RECURSIVE ReadNotes(_, _, _)
RECURSIVE ReadSection(_, _, _)
ReadNotes(lines, i, release_notes) ==
    IF i > Len(lines) THEN release_notes
    ELSE IF MatchesCurrentRelease(lines[i]) THEN ReadSection(lines, i + 1, release_notes)
    ELSE ReadNotes(lines, i + 1, release_notes)
ReadSection(lines, j, release_notes) ==
    IF j > Len(lines) THEN release_notes
    ELSE IF MatchesRelease(lines[j]) THEN ReadNotes(lines, j + 2, release_notes)
    ELSE ReadSection(lines, j + 1, Append(release_notes, lines[j]))
\* lines 61-64: the empty lines at the end are deleted
RECURSIVE DropTrailingEmpty(_)
DropTrailingEmpty(release_notes) ==
    IF release_notes # <<>> /\ release_notes[Len(release_notes)] = "blank"
    THEN DropTrailingEmpty(SubSeq(release_notes, 1, Len(release_notes) - 1))
    ELSE release_notes

cr_Init ==
    /\ cr_changelog \in Changelogs \cup {NoFile}
    /\ cr_pc = "main"
    /\ cr_result = NoResult
    /\ cr_raised = ""
    /\ cr_output = <<>>
    /\ cr_stderr = <<>>
    /\ cr_exit = NoResult
cr_Off ==
    /\ cr_changelog = NoFile
    /\ cr_pc = "off"
    /\ cr_result = NoResult
    /\ cr_raised = ""
    /\ cr_output = <<>>
    /\ cr_stderr = <<>>
    /\ cr_exit = NoResult

\* lines 32-70: open() raises when there is no CHANGELOG.md; otherwise the
\* notes are read, written with the header if there are any, and 0 or 1 is
\* returned
create_release_notes ==
    /\ cr_pc = "main"
    /\ IF cr_changelog = NoFile
       THEN /\ cr_pc' = "raised"
            /\ cr_raised' = "FileNotFoundError"
            /\ UNCHANGED <<cr_result, cr_output>>
       ELSE LET release_notes == DropTrailingEmpty(ReadNotes(cr_changelog.lines, 1, <<>>))
            IN  /\ cr_pc' = "returned"
                /\ cr_result' = IF release_notes # <<>> THEN 0 ELSE 1
                /\ cr_output' = IF release_notes # <<>>
                                THEN <<"header">> \o release_notes ELSE cr_output
                /\ UNCHANGED cr_raised
    /\ UNCHANGED <<cr_changelog, cr_stderr, cr_exit, cr_others>>
\* lines 91-107: the value of the call is dropped; main returns 1 after an
\* exception and 0 otherwise, and sys.exit(main()) makes it the exit code
main ==
    /\ cr_pc \in {"returned", "raised"}
    /\ cr_pc' = "exit"
    /\ IF cr_pc = "raised"
       THEN /\ cr_stderr' = Append(cr_stderr, cr_raised)
            /\ cr_exit' = 1
       ELSE /\ cr_exit' = 0
            /\ UNCHANGED cr_stderr
    /\ UNCHANGED <<cr_changelog, cr_result, cr_raised, cr_output, cr_others>>

cr_Next ==
    \/ create_release_notes
    \/ main

(***************************************************************************)
(* validate_basic (data_validation/validate_basic.py): main loads the csv  *)
(* file and the JSON configuration and returns                             *)
(* validate_df(df, **configuration_dict) (the vd_ variables hold the       *)
(* call).                                                                  *)
(***************************************************************************)
\* validation_utilities.py lines 317-330: the parameters of validate_df
\* after df
validate_df_parameters ==
    {"data_required_column_names", "data_optional_column_names",
     "unique_single_value_columns", "unique_multi_value_columns", "url_columns",
     "multi_url_columns", "doi_columns", "multi_doi_columns", "allow_redirects",
     "column_is_in", "multi_value_column_is_in"}
\* The JSON configuration files: the required columns and one more setting,
\* each setting that the module docstring or the signature of validate_df
\* names with a value for the columns c1 and c2.
BasicSettings ==
    {<<>>,
     "data_optional_column_names" :> {},
     "unique_entry_columns" :> {"c1"},
     "unique_single_value_columns" :> {"c1"},
     "unique_multi_value_columns" :> {"c2"},
     "url_columns" :> {"c1"},
     "multi_url_columns" :> {"c2"},
     "doi_columns" :> {"c1"},
     "multi_doi_columns" :> {"c2"},
     "column_is_in" :> ("c1" :> {<<"a">>, <<"b">>}),
     "multi_value_column_is_in" :> ("c2" :> {<<"a">>, <<"b">>})}
BasicConfigurations ==
    {("data_required_column_names" :> DfColumns) @@ setting : setting \in BasicSettings}

vb_Init ==
    /\ vb_df \in DataFrames
    /\ vb_config \in BasicConfigurations
    /\ vb_pc = "main"
    /\ vb_result = NoResult
    /\ vb_raised = ""
vb_Off ==
    /\ vb_df = [columns |-> {}, rows |-> <<>>]
    /\ vb_config = <<>>
    /\ vb_pc = "off"
    /\ vb_result = NoResult
    /\ vb_raised = ""

\* lines 65-68: a key of the configuration that is no parameter of validate_df
\* makes the call raise TypeError (unexpected keyword argument) before the
\* body of validate_df runs
BasicCallValidateDf ==
    /\ vb_pc = "main"
    /\ IF DOMAIN vb_config \subseteq validate_df_parameters
       THEN /\ vb_pc' = "validate_df"
            /\ vd_df' = vb_df
            /\ vd_cfg' = KeywordArguments(vb_config)
            /\ vd_pc' = Checks[1]
            /\ UNCHANGED vb_raised
       ELSE /\ vb_pc' = "raised"
            /\ vb_raised' = "TypeError: unexpected keyword argument"
            /\ UNCHANGED <<vd_df, vd_cfg, vd_pc>>
    /\ UNCHANGED <<vd_result, vd_raised, vd_stderr, vd_ran, vd_requests, vd_invalid>>
    /\ UNCHANGED <<vb_df, vb_config, vb_result>>
    /\ UNCHANGED vb_callee_others
\* line 68: return validate_df(...), or its exception leaves main
BasicReturn ==
    /\ vb_pc = "validate_df"
    /\ vd_pc \in {"returned", "raised"}
    /\ IF vd_pc = "raised"
       THEN /\ vb_pc' = "raised"
            /\ vb_raised' = vd_raised
            /\ UNCHANGED vb_result
       ELSE /\ vb_pc' = "returned"
            /\ vb_result' = vd_result
            /\ UNCHANGED vb_raised
    /\ UNCHANGED <<vb_df, vb_config, vb_others>>

vb_Next ==
    \/ BasicCallValidateDf
    \/ vd_Next
    \/ BasicReturn

(***************************************************************************)
(* update_index_stats (md_generation/update_index_md_stats.py).  The       *)
(* markdown template is a sequence of pieces: text without braces, or a    *)
(* variable "{name}"; str.replace turns the pieces of a variable into the  *)
(* text of its value.                                                      *)
(***************************************************************************)
Text == [kind |-> "text", name |-> "", value |-> 0]
Variable(name) == [kind |-> "variable", name |-> name, value |-> 0]
\* str(v)
Str(v) == [kind |-> "number", name |-> "", value |-> v]
\* the variables that occur in the templates: those of the module docstring,
\* lines 30-37, and the other keys of stats_dict
TemplateVariables ==
    {"number_of_contributors", "number_of_recommended_antibodies",
     "number_of_not_recommended_antibodies", "number_of_fluorophores",
     "number_of_tissues", "do_not_edit_message", "number_of_validated_reagents",
     "number_of_fluorescent_probes"}
Templates ==
    UNION {[1..n -> {Text} \cup {Variable(name) : name \in TemplateVariables}] :
                n \in 0..MaxPieces}
\* The rows of reagent_resources.csv, with the columns that the statistics
\* read; the three tissue columns are one value here.
StatsRow(agree, disagree, conjugate, tissue) ==
    [Agree |-> agree, Disagree |-> disagree, Conjugate |-> conjugate, Tissue |-> tissue]
StatsRows ==
    {StatsRow(<<"1">>, NA, <<"f">>, "mouse spleen"),
     StatsRow(<<"1", ";", " ", "2">>, <<"3">>, NA, "mouse spleen"),
     StatsRow(<<"2">>, NA, <<"H", "R", "P">>, "human liver"),
     StatsRow(NA, <<"1">>, <<"g">>, "human liver")}
StatsDataFrames == UNION {[1..n -> StatsRows] : n \in 0..MaxRows}
\* lines 85-94
AllUniqueContributors(df) ==
    {Strip(v) : v \in UNION {Range(Split(df[n][c])) : n \in DOMAIN df, c \in {"Agree", "Disagree"}}}
        \ {NA}
\* lines 98-109: of the conjugates of the list, NA and HRP occur in the rows
NotFluorescent == {NA, <<"H", "R", "P">>}
\* lines 77-115: the keys of stats_dict in the order of their insertion, and
\* their values
StatsKeys == <<"number_of_contributors", "number_of_validated_reagents",
               "number_of_fluorescent_probes", "number_of_tissues">>
compute_stats_dictionary(df) ==
    [number_of_contributors |-> Cardinality(AllUniqueContributors(df)),
     number_of_validated_reagents |-> Len(df),
     number_of_fluorescent_probes |->
        Cardinality({df[n].Conjugate : n \in DOMAIN df} \ NotFluorescent),
     number_of_tissues |-> Cardinality({df[n].Tissue : n \in DOMAIN df})]
\* line 54: output_str.replace("{" + k + "}", str(v))
Replace(output_str, k, v) ==
    [n \in DOMAIN output_str |->
        IF output_str[n] = Variable(k) THEN Str(v) ELSE output_str[n]]
\* lines 52-54: the loop over stats_dictionary.items(), from the i-th key on
RECURSIVE ReplaceAll(_, _, _)
ReplaceAll(output_str, stats_dictionary, i) ==
    IF i > Len(StatsKeys) THEN output_str
    ELSE ReplaceAll(Replace(output_str, StatsKeys[i], stats_dictionary[StatsKeys[i]]),
                    stats_dictionary, i + 1)

us_Init ==
    /\ us_template \in Templates
    /\ us_csv \in StatsDataFrames
    /\ us_pc = "call"
    /\ us_output = <<>>
us_Off ==
    /\ us_template = <<>>
    /\ us_csv = <<>>
    /\ us_pc = "off"
    /\ us_output = <<>>

\* lines 48-56
update_index_stats ==
    /\ us_pc = "call"
    /\ us_pc' = "done"
    /\ us_output' = ReplaceAll(us_template, compute_stats_dictionary(us_csv), 1)
    /\ UNCHANGED <<us_template, us_csv, us_others>>

us_Next == update_index_stats

(***************************************************************************)
(* csv_2_supporting (csv_2_supporting.py): main, csv_2_supporting,         *)
(* single_orcid and create_md_files.  An ORCID is a string of one          *)
(* character here.                                                         *)
(***************************************************************************)
\* The cells of the Agree and of the Disagree column: an ORCID, NA, nothing,
\* two ORCIDs, an ORCID and a semicolon, NA after a space, a space.
SupportingAgreeValues ==
    {<<"1">>, NA, <<>>, <<"1", ";", "2">>, <<"1", ";">>, <<" ">> \o NA, <<" ">>}
SupportingDisagreeValues == {NA, <<"2">>}
SupportingRows ==
    {("Target Name / Protein Biomarker" :> <<"t">>) @@ ("Conjugate" :> conjugate)
        @@ ("Agree" :> agree) @@ ("Disagree" :> disagree) :
            conjugate \in {<<"c">>, <<"d", " ", "e">>},
            agree \in SupportingAgreeValues, disagree \in SupportingDisagreeValues}
SupportingDataFrames ==
    {[columns |-> {"Target Name / Protein Biomarker", "Conjugate", "Agree", "Disagree"},
      rows |-> rows] : rows \in UNION {[1..n -> SupportingRows] : n \in 1..MaxRows}}

\* lines 190-195 as if a cell counted as one ORCID whatever it holds
single_orcid_per_cell(x) ==
    LET Count(v) == IF Strip(v) # <<>> /\ v # NA THEN 1 ELSE 0
    IN  Count(x[1]) + Count(x[2]) = 1
\* lines 190-195: x holds the Agree and the Disagree cell of a row
single_orcid(x) ==
    LET Count(v) == IF Strip(v) # <<>> /\ v # NA THEN Len(Split(v)) ELSE 0
    IN  Count(x[1]) + Count(x[2]) = 1
\* lines 204-205: the rows for which single_orcid is False
NotSingleOrcidRows(df) ==
    {n \in 1..Len(df.rows) : ~single_orcid(<<df.rows[n]["Agree"], df.rows[n]["Disagree"]>>)}
\* lines 211-215: the cells that differ from their strip()
DiffEntries(df) ==
    {<<n, c>> \in (1..Len(df.rows)) \X df.columns : df.rows[n][c] # Strip(df.rows[n][c])}
\* lines 101-119 and 183-186 of create_md_files: the directory of the pair,
\* <<directory>>, and the files <<directory, orcid>> written into it
CreatedForPair(df, target_conjugate) ==
    LET tc_rows == TcRows(df, target_conjugate)
        orcids == {df.rows[n][c] : n \in tc_rows, c \in {"Agree", "Disagree"}} \ {<<>>, NA}
    IN  {<<DataPath(target_conjugate)>>}
            \cup {<<DataPath(target_conjugate), orcid>> : orcid \in orcids}

cs_Init ==
    /\ cs_df \in SupportingDataFrames
    /\ cs_template \in BOOLEAN
    /\ cs_pc = "single orcid"
    /\ cs_raised = ""
    /\ cs_created = {}
    /\ cs_exit = NoResult
cs_Off ==
    /\ cs_df = [columns |-> {}, rows |-> <<>>]
    /\ cs_template = FALSE
    /\ cs_pc = "off"
    /\ cs_raised = ""
    /\ cs_created = {}
    /\ cs_exit = NoResult

\* raise ...: the exception leaves csv_2_supporting
SupportingRaise(exception) ==
    /\ cs_pc' = "raised"
    /\ cs_raised' = exception
\* lines 199-208
SingleOrcidCheck ==
    /\ cs_pc = "single orcid"
    /\ IF NotSingleOrcidRows(cs_df) # {}
       THEN SupportingRaise("ValueError")
       ELSE /\ cs_pc' = "whitespace"
            /\ UNCHANGED cs_raised
    /\ UNCHANGED <<cs_df, cs_template, cs_created, cs_exit, cs_others>>
\* lines 210-227
StrippedCheck ==
    /\ cs_pc = "whitespace"
    /\ IF DiffEntries(cs_df) # {}
       THEN SupportingRaise("ValueError")
       ELSE /\ cs_pc' = "template"
            /\ UNCHANGED cs_raised
    /\ UNCHANGED <<cs_df, cs_template, cs_created, cs_exit, cs_others>>
\* lines 228-248: open() raises when there is no template file; a missing
\* publication file is a warning only
ReadTemplate ==
    /\ cs_pc = "template"
    /\ IF ~cs_template
       THEN SupportingRaise("FileNotFoundError")
       ELSE /\ cs_pc' = "create"
            /\ UNCHANGED cs_raised
    /\ UNCHANGED <<cs_df, cs_template, cs_created, cs_exit, cs_others>>
\* lines 250-258: create_md_files for every pair of target and conjugate
CreateMdFiles ==
    /\ cs_pc = "create"
    /\ cs_pc' = "returned"
    /\ cs_created' = cs_created \cup
            UNION {CreatedForPair(cs_df, target_conjugate) :
                        target_conjugate \in UniqueTargetConjugate(cs_df)}
    /\ UNCHANGED <<cs_df, cs_template, cs_raised, cs_exit, cs_others>>
\* lines 275-287: main returns 1 after an exception and 0 otherwise
SupportingMain ==
    /\ cs_pc \in {"returned", "raised"}
    /\ cs_pc' = "exit"
    /\ cs_exit' = IF cs_pc = "raised" THEN 1 ELSE 0
    /\ UNCHANGED <<cs_df, cs_template, cs_raised, cs_created, cs_others>>

cs_Next ==
    \/ SingleOrcidCheck
    \/ StrippedCheck
    \/ ReadTemplate
    \/ CreateMdFiles
    \/ SupportingMain

(***************************************************************************)
(* urls_exist_with_retries (validation_utilities.py, lines 156-193): the   *)
(* loop over the urls of one call, with the arguments of time.sleep.  Time *)
(* is counted in ticks, JitterSteps ticks to the second.                   *)
(***************************************************************************)
\* np.random.random() is a value of [0, 1): a whole number of ticks below
\* one second
NpRandomValues == 0..(JitterSteps - 1)
\* pow(base=b, exp=e) of whole numbers
RECURSIVE pow(_, _)
pow(b, e) == IF e = 0 THEN 1 ELSE b * pow(b, e - 1)
\* a backoff that grows by two seconds a retry
LinearBackoff(i, random) == 2 * i * JitterSteps + random
\* line 174: pow(base=2, exp=i) + np.random.random(), in ticks
Backoff(i, random) == pow(2, i) * JitterSteps + random

bo_Init ==
    /\ bo_urls \in 0..MaxUrls
    /\ bo_retry_num \in 0..MaxBackoffRetry
    /\ bo_j = 1
    /\ bo_i = 0
    /\ bo_not_successful = FALSE
    /\ bo_sleeps = <<>>
    /\ bo_results = <<>>
    /\ bo_pc = IF bo_urls = 0 THEN "return" ELSE "first check"
bo_Off ==
    /\ bo_urls = 0
    /\ bo_retry_num = 0
    /\ bo_j = 1
    /\ bo_i = 0
    /\ bo_not_successful = FALSE
    /\ bo_sleeps = <<>>
    /\ bo_results = <<>>
    /\ bo_pc = "off"

\* lines 156-172: the first check of a url; the retries start with i = 0
FirstCheck ==
    /\ bo_pc = "first check"
    /\ \E exists \in BOOLEAN :
        IF exists
        THEN /\ bo_results' = Append(bo_results, TRUE)
             /\ bo_pc' = "delay"
             /\ UNCHANGED <<bo_i, bo_not_successful>>
        ELSE /\ bo_i' = 0
             /\ bo_not_successful' = TRUE
             /\ bo_pc' = "while"
             /\ UNCHANGED bo_results
    /\ bo_sleeps' = <<>>
    /\ UNCHANGED <<bo_urls, bo_retry_num, bo_j, bo_others>>
\* lines 173-174 and 185-186: the test of the loop, then the sleep before the
\* retry or the end of the retries
WhileSleep ==
    /\ bo_pc = "while"
    /\ IF RetryLoop(bo_i, bo_retry_num, bo_not_successful)
       THEN /\ \E random \in NpRandomValues :
                    bo_sleeps' = Append(bo_sleeps, Backoff(bo_i, random))
            /\ bo_pc' = "retry"
            /\ UNCHANGED bo_results
       ELSE /\ bo_results' = IF bo_not_successful
                             THEN Append(bo_results, FALSE) ELSE bo_results
            /\ bo_pc' = "delay"
            /\ UNCHANGED bo_sleeps
    /\ UNCHANGED <<bo_urls, bo_retry_num, bo_j, bo_i, bo_not_successful, bo_others>>
\* lines 175-184: the retry
RetryCheck ==
    /\ bo_pc = "retry"
    /\ \E exists \in BOOLEAN :
        IF exists
        THEN /\ bo_results' = Append(bo_results, TRUE)
             /\ bo_not_successful' = FALSE
        ELSE UNCHANGED <<bo_results, bo_not_successful>>
    /\ bo_i' = bo_i + 1
    /\ bo_pc' = "while"
    /\ UNCHANGED <<bo_urls, bo_retry_num, bo_j, bo_sleeps, bo_others>>
\* lines 188-192 and 155: the delay between two urls, which is not a wait
\* before a retry, then the next url or the end of the loop
NextUrl ==
    /\ bo_pc = "delay"
    /\ bo_j' = bo_j + 1
    /\ bo_pc' = IF bo_j + 1 > bo_urls THEN "return" ELSE "first check"
    /\ UNCHANGED <<bo_urls, bo_retry_num, bo_i, bo_not_successful, bo_sleeps,
                   bo_results, bo_others>>
\* line 193
ReturnResults ==
    /\ bo_pc = "return"
    /\ bo_pc' = "returned"
    /\ UNCHANGED <<bo_urls, bo_retry_num, bo_j, bo_i, bo_not_successful, bo_sleeps,
                   bo_results, bo_others>>

bo_Next ==
    \/ FirstCheck
    \/ WhileSleep
    \/ RetryCheck
    \/ NextUrl
    \/ ReturnResults

(***************************************************************************)
(* Specifications.                                                         *)
(***************************************************************************)
\* one call of url_exists, for every pair of outcomes of its requests
ue_Next == url_exists
InitUrlExists == ue_Init /\ cu_Off /\ vd_Off /\ zj_Off /\ bf_Off /\ rr_Off /\ vv_Off /\ cr_Off /\ vb_Off /\ us_Off /\ cs_Off /\ bo_Off
SpecUrlExists == InitUrlExists /\ [][ue_Next]_vars

\* one call of check_urls
InitCheckUrls == cu_Init /\ ue_Off /\ vd_Off /\ zj_Off /\ bf_Off /\ rr_Off /\ vv_Off /\ cr_Off /\ vb_Off /\ us_Off /\ cs_Off /\ bo_Off
SpecCheckUrls == InitCheckUrls /\ [][cu_Next]_vars
\* urls_exist_with_retries on each group in turn (a pool of one thread), with
\* the thread scheduled and every request answered or timed out
InitRetries == InitCheckUrls /\ num_threads = 1
FairSpecRetries == InitRetries /\ [][cu_Next]_vars /\ WF_vars(cu_Next)
\* one call of validate_df
InitValidateDf == vd_Init /\ ue_Off /\ cu_Off /\ zj_Off /\ bf_Off /\ rr_Off /\ vv_Off /\ cr_Off /\ vb_Off /\ us_Off /\ cs_Off /\ bo_Off
SpecValidateDf == InitValidateDf /\ [][vd_Next]_vars
\* one call of validate_zenodo_json
InitZenodoJson == zj_Init /\ ue_Off /\ cu_Off /\ vd_Off /\ bf_Off /\ rr_Off /\ vv_Off /\ cr_Off /\ vb_Off /\ us_Off /\ cs_Off /\ bo_Off
SpecZenodoJson == InitZenodoJson /\ [][zj_Next]_vars
\* one call of validate_bib_file_data
InitBibFile == bf_Init /\ ue_Off /\ cu_Off /\ vd_Off /\ zj_Off /\ rr_Off /\ vv_Off /\ cr_Off /\ vb_Off /\ us_Off /\ cs_Off /\ bo_Off
SpecBibFile == InitBibFile /\ [][bf_Next]_vars
InitReagentResources == rr_Init /\ ue_Off /\ cu_Off /\ vd_Off /\ zj_Off /\ bf_Off /\ vv_Off /\ cr_Off /\ vb_Off /\ us_Off /\ cs_Off /\ bo_Off
SpecReagentResources == InitReagentResources /\ [][rr_Next]_vars
InitValidateVideos == vv_Init /\ ue_Off /\ cu_Off /\ vd_Off /\ zj_Off /\ bf_Off /\ rr_Off /\ cr_Off /\ vb_Off /\ us_Off /\ cs_Off /\ bo_Off
SpecValidateVideos == InitValidateVideos /\ [][vv_Next]_vars
InitReleaseNotes == cr_Init /\ ue_Off /\ cu_Off /\ vd_Off /\ zj_Off /\ bf_Off /\ rr_Off /\ vv_Off /\ vb_Off /\ us_Off /\ cs_Off /\ bo_Off
SpecReleaseNotes == InitReleaseNotes /\ [][cr_Next]_vars
InitValidateBasic == vb_Init /\ ue_Off /\ cu_Off /\ vd_Off /\ zj_Off /\ bf_Off /\ rr_Off /\ vv_Off /\ cr_Off /\ us_Off /\ cs_Off /\ bo_Off
SpecValidateBasic == InitValidateBasic /\ [][vb_Next]_vars
InitIndexStats == us_Init /\ ue_Off /\ cu_Off /\ vd_Off /\ zj_Off /\ bf_Off /\ rr_Off /\ vv_Off /\ cr_Off /\ vb_Off /\ cs_Off /\ bo_Off
SpecIndexStats == InitIndexStats /\ [][us_Next]_vars
InitCsv2Supporting == cs_Init /\ ue_Off /\ cu_Off /\ vd_Off /\ zj_Off /\ bf_Off /\ rr_Off /\ vv_Off /\ cr_Off /\ vb_Off /\ us_Off /\ bo_Off
SpecCsv2Supporting == InitCsv2Supporting /\ [][cs_Next]_vars
InitBackoff == bo_Init /\ ue_Off /\ cu_Off /\ vd_Off /\ zj_Off /\ bf_Off /\ rr_Off /\ vv_Off /\ cr_Off /\ vb_Off /\ us_Off /\ cs_Off
SpecBackoff == InitBackoff /\ [][bo_Next]_vars

(***************************************************************************)
(* Properties of check_urls, urls_exist_with_retries and url_exists.       *)
(***************************************************************************)
Parses(n) == ~UrlparseRaises(urls_container[n])
SameDomain(n) == {m \in 1..Len(urls_container) :
                    Parses(m) /\ Netloc(urls_container[m]) = Netloc(urls_container[n])}
Min(S) == CHOOSE x \in S : \A y \in S : x <= y
Max(S) == CHOOSE x \in S : \A y \in S : x >= y
\* the task that checks the n-th url of the container, and the url's place in it
TaskOf(n) == Cardinality({Netloc(urls_container[m]) :
                            m \in {k \in 1..Min(SameDomain(n)) : Parses(k)}})
PlaceOf(n) == Cardinality({m \in SameDomain(n) : m <= n})
\* the existence result computed for the n-th url of the container
Computed(n) ==
    IF Parses(n)
    THEN \E k \in 1..Len(checks[TaskOf(n)][PlaceOf(n)]) : checks[TaskOf(n)][PlaceOf(n)][k]
    ELSE FALSE
LastOccurrence(n) == Max({m \in 1..Len(urls_container) : urls_container[m] = urls_container[n]})

\* C1 as stated: check_urls returns a list as long as the container whose
\* n-th element is the existence result computed for the n-th url.
C1_ResultOfEachPosition ==
    main_pc = "done" =>
        /\ Len(ret) = Len(urls_container)
        /\ \A n \in 1..Len(urls_container) : ret[n] = Computed(n)

\* C1 (amended): check_urls returns a list as long as the container whose n-th
\* element is the result computed for the last occurrence in the container of
\* the n-th url (for the n-th url itself when the container holds no url twice),
\* and False for a url that urlparse rejects.
C1_ResultOfLastOccurrence ==
    main_pc = "done" =>
        /\ Len(ret) = Len(urls_container)
        /\ \A n \in 1..Len(urls_container) : ret[n] = Computed(LastOccurrence(n))

C1_Witness ==
    /\ main_pc = "done"
    /\ num_threads = 2
    /\ Len(urls_container) = 2
    /\ ran = <<2, 1>>
    /\ ret = <<FALSE, TRUE>>

Requesting(w) == workers[w].pc = "request"
CurrentUrl(w) == Group(workers[w].task)[workers[w].j]

\* C2 as stated: at no time are two worker threads in a request to the same
\* host.
C2_OneWorkerPerHost ==
    \A w1 \in Threads, w2 \in Threads :
        (w1 # w2 /\ Requesting(w1) /\ Requesting(w2))
            => Hostname(CurrentUrl(w1)) # Hostname(CurrentUrl(w2))

\* C3: url_exists returns, and returns True exactly when the final response
\* has status 200, 301, 302, 303, 307, 308 or 403 or the request timed out or
\* raised an SSL error; no request exception reaches the caller.
C3_UrlExistsValue ==
    ue_pc = "done" =>
        LET final == FinalOutcome(ue_head, ue_get) IN
        /\ ue_result.returned
        /\ ue_result.value =
             \/ final.kind = "response" /\ final.status \in {200, 301, 302, 303, 307, 308, 403}
             \/ final.kind = "exception" /\ "Timeout" \in Bases(final.class)
             \/ final.kind = "exception" /\ "SSLError" \in Bases(final.class)

C3_Witness ==
    /\ ue_pc = "done"
    /\ ue_head = Response(405)
    /\ ue_get = Raise("ConnectionError")
    /\ ue_result = Returned(FALSE)

\* C4: every url gets its first check and at most retry_num retries, none
\* after a check that returned True; a finished task has one boolean per url
\* of its group, in order, True exactly when some check of that url returned
\* True; and every call ends.
C4_Checks ==
    \A t \in DOMAIN checks : \A j \in DOMAIN checks[t] :
        LET c == checks[t][j] IN
        /\ Len(c) <= 1 + retry_num
        /\ \A k \in 1..(Len(c) - 1) : ~c[k]
        /\ futures[t].done =>
             /\ Len(futures[t].value) = Len(Group(t))
             /\ Len(c) >= 1
             /\ futures[t].value[j] = (\E k \in 1..Len(c) : c[k])
C4_BoundedRetries == [](C4_Checks) /\ <>(main_pc = "done")

C4_Witness ==
    /\ retry_num = 1
    /\ \E t \in DOMAIN checks :
         /\ futures[t].done
         /\ Len(Group(t)) = 2
         /\ checks[t] = <<(<<FALSE, TRUE>>), (<<FALSE, FALSE>>)>>
         /\ futures[t].value = <<TRUE, FALSE>>

WorkerOf(a) == a[1]
ObjectOf(a) == a[2]
Writes(a) == a[3] = "w"
Owns(w, t) == t \in DOMAIN ran /\ ran[t] = w
OwnObject(a) ==
    \E t \in DOMAIN ran :
        /\ Owns(WorkerOf(a), t)
        /\ \/ ObjectOf(a) = DomainGroup(t) /\ ~Writes(a)
           \/ ObjectOf(a) = Session(t)
           \/ ObjectOf(a) = ResultList(t)

\* the objects of different tasks are different objects
ObjectsPerTask ==
    \A t1 \in DOMAIN ran, t2 \in DOMAIN ran :
        t1 # t2 => /\ Session(t1) # Session(t2)
                   /\ ResultList(t1) # ResultList(t2)
                   /\ DomainGroup(t1) # DomainGroup(t2)

Rows == 1..Len(vd_df.rows)
Cell(n, c) == vd_df.rows[n][c]
Terminated == vd_pc \in {"returned", "raised"}
HasOuterWhitespace(x) == x # <<>> /\ (x[1] = " " \/ x[Len(x)] = " ")
\* the values of a multi-value cell, in the order of the cell
ValuesOf(x) == SelectSeq([k \in 1..Len(Split(x)) |-> Strip(Split(x)[k])], LAMBDA v : v # <<>>)

ConfigurationPasses ==
    vd_cfg.data_required_column_names \cap vd_cfg.data_optional_column_names = {}
ColumnNamesPass ==
    vd_cfg.data_required_column_names \cup vd_cfg.data_optional_column_names = vd_df.columns
WhitespacePasses == \A n \in Rows, c \in vd_df.columns : ~HasOuterWhitespace(Cell(n, c))
RequiredContentPasses ==
    \A n \in Rows, c \in vd_cfg.data_required_column_names \cap vd_df.columns :
        Cell(n, c) # <<>>
SingleValuesDistinct ==
    \A c \in vd_cfg.unique_single_value_columns, n \in Rows, m \in Rows :
        n # m => Cell(n, c) # Cell(m, c)
MultiValuesDistinct ==
    \A c \in vd_cfg.unique_multi_value_columns, n \in Rows :
        \A i \in 1..Len(ValuesOf(Cell(n, c))), j \in 1..Len(ValuesOf(Cell(n, c))) :
            i # j => ValuesOf(Cell(n, c))[i] # ValuesOf(Cell(n, c))[j]
UrlsPass == ~ \E u \in vd_invalid : u[1] = "url"
DoisPass == ~ \E u \in vd_invalid : u[1] = "https://doi.org/"
SingleValuesAllowed ==
    \A c \in DOMAIN vd_cfg.column_is_in, n \in Rows : Cell(n, c) \in vd_cfg.column_is_in[c]
MultiValuesAllowed ==
    \A c \in DOMAIN vd_cfg.multi_value_column_is_in, n \in Rows :
        \A k \in 1..Len(Split(Cell(n, c))) :
            \/ Split(Cell(n, c))[k] = <<>>
            \/ Split(Cell(n, c))[k] \in vd_cfg.multi_value_column_is_in[c]
\* the checks before the uniqueness checks
EarlierChecksPass ==
    ConfigurationPasses /\ ColumnNamesPass /\ WhitespacePasses /\ RequiredContentPasses
AllSevenPass ==
    /\ ConfigurationPasses /\ ColumnNamesPass
    /\ WhitespacePasses
    /\ RequiredContentPasses
    /\ SingleValuesDistinct /\ MultiValuesDistinct
    /\ UrlsPass
    /\ DoisPass
    /\ SingleValuesAllowed /\ MultiValuesAllowed

\* C5: when validate_df ends it has returned, 0 if all seven documented checks
\* pass (an inconsistent configuration counted with the column names) and 1
\* otherwise.
C5_ZeroIffAllChecksPass ==
    Terminated => /\ vd_pc = "returned"
                  /\ vd_result = (IF AllSevenPass THEN 0 ELSE 1)

\* the order of the checks, uniqueness and allowed values each in two parts
DocumentedOrder ==
    <<"configuration", "column names", "whitespace", "required content",
      "unique single value", "unique multi value", "urls", "dois",
      "column_is_in", "multi_value_column_is_in">>
Passes(check) ==
    CASE check = "configuration" -> ConfigurationPasses
      [] check = "column names" -> ColumnNamesPass
      [] check = "whitespace" -> WhitespacePasses
      [] check = "required content" -> RequiredContentPasses
      [] check = "unique single value" -> SingleValuesDistinct
      [] check = "unique multi value" -> MultiValuesDistinct
      [] check = "urls" -> UrlsPass
      [] check = "dois" -> DoisPass
      [] check = "column_is_in" -> SingleValuesAllowed
      [] check = "multi_value_column_is_in" -> MultiValuesAllowed

\* C6: the checks run in the documented order; a check that fails is the last
\* one to run and validate_df has returned 1; urls and dois are requested only
\* after all earlier checks have passed.
C6_FirstFailureReturns1 ==
    /\ Len(vd_ran) <= Len(DocumentedOrder)
    /\ \A k \in 1..Len(vd_ran) : vd_ran[k] = DocumentedOrder[k]
    /\ \A k \in 1..Len(vd_ran) :
           ~Passes(vd_ran[k]) => k = Len(vd_ran) /\ vd_pc = "returned" /\ vd_result = 1
    /\ vd_requests # {} => \A k \in 1..6 : Passes(DocumentedOrder[k])

\* C7: when validate_zenodo_json has found a problem it has written a
\* diagnostic to standard error and has returned a code other than 0.
C7_FailureOnStderr ==
    (zj_stdout # <<>> \/ zj_result \notin {NoResult, 0})
        => zj_stderr # <<>> /\ zj_result \notin {NoResult, 0}

\* C9: when the earlier checks pass and a cell of a column listed in
\* unique_multi_value_columns holds a value twice, validate_df ends by
\* returning 1.
C9_MultiValueDuplicateReturns1 ==
    (Terminated /\ EarlierChecksPass /\ SingleValuesDistinct /\ ~MultiValuesDistinct)
        => vd_pc = "returned" /\ vd_result = 1

\* C10: when the earlier checks pass and a column listed in
\* unique_single_value_columns holds a value in two rows, validate_df ends at
\* that check, with a diagnostic, by returning 1; it goes on to a later check
\* or returns 0 only when the values of every listed column are pairwise
\* distinct.
C10_SingleValueDuplicateReturns1 ==
    /\ (Terminated /\ EarlierChecksPass /\ ~SingleValuesDistinct)
           => /\ vd_pc = "returned" /\ vd_result = 1
              /\ vd_ran[Len(vd_ran)] = "unique single value"
              /\ vd_stderr = <<"duplicate information">>
    /\ (vd_result = 0 \/ \E k \in 1..Len(vd_ran) : vd_ran[k] = "unique multi value")
           => SingleValuesDistinct

C10_Witness ==
    /\ vd_pc = "returned" /\ vd_result = 1
    /\ EarlierChecksPass /\ ~SingleValuesDistinct
    /\ vd_ran[Len(vd_ran)] = "unique single value"
    /\ Len(vd_df.rows) > 1

\* C11: when the column names match the configuration and some cell has
\* leading or trailing whitespace, validate_df ends by returning 1, whatever
\* the later checks are, none of which has run.
C11_WhitespaceReturns1 ==
    (Terminated /\ ColumnNamesPass /\ ~WhitespacePasses)
        => /\ vd_pc = "returned" /\ vd_result = 1
           /\ vd_stderr # <<>>
           /\ vd_ran[Len(vd_ran)] \in {"configuration", "whitespace"}
           /\ vd_requests = {}

\* a cell with whitespace in a dataframe that also fails the later checks
C11_Witness ==
    /\ vd_pc = "returned" /\ vd_result = 1
    /\ ColumnNamesPass /\ ~WhitespacePasses
    /\ vd_stderr = <<"leading/trailing whitespace">>
    /\ ~RequiredContentPasses /\ ~MultiValuesDistinct /\ ~SingleValuesAllowed

(***************************************************************************)
(* The content of a .bib file as the documentation of validate_bib speaks  *)
(* of it.                                                                  *)
(***************************************************************************)
BlocksOfKind(kind) == {n \in 1..Len(bf_file) : bf_file[n].kind = kind}
\* the spellings of a field name that differ in the case of letters only
Spellings(field) ==
    CASE field = "author" -> {"author", "Author"}
      [] field = "doi" -> {"doi", "DOI"}
      [] OTHER -> {field}
EveryEntryHasTheFields ==
    \A n \in BlocksOfKind("entry") :
        \A field \in {"author", "title", "year", "doi", "note"} :
            Spellings(field) \cap bf_file[n].fields # {}
NoKeyTwice ==
    \A n \in BlocksOfKind("entry"), m \in BlocksOfKind("entry") :
        n # m => bf_file[n].ID # bf_file[m].ID

CreatorsOf == zj_dict.creators
ZenodoTerminated == zj_pc \in {"returned", "raised"}
Blank(x) == x \in {"", " "}
Incomplete(creator) ==
    \E field \in {"affiliation", "name", "orcid"} :
        field \notin DOMAIN creator \/ Blank(creator[field])
SomeCreatorIncomplete == \E n \in 1..Len(CreatorsOf) : Incomplete(CreatorsOf[n])
SharedOrcid ==
    \E n \in 1..Len(CreatorsOf), m \in 1..Len(CreatorsOf) :
        /\ n # m
        /\ "orcid" \in DOMAIN CreatorsOf[n] /\ "orcid" \in DOMAIN CreatorsOf[m]
        /\ CreatorsOf[n].orcid = CreatorsOf[m].orcid

\* C13: when a creator lacks an affiliation, name or orcid (or has it blank)
\* or two creators share an ORCID, validate_zenodo_json ends by returning 1,
\* and no ORCID url is ever requested for such a file.
C13_CreatorsCheckedBeforeUrls ==
    /\ (ZenodoTerminated /\ (SomeCreatorIncomplete \/ SharedOrcid))
           => zj_pc = "returned" /\ zj_result = 1
    /\ (SomeCreatorIncomplete \/ SharedOrcid) => zj_requests = {}

\* complete creators, two of them with the same ORCID and others between them
C13_Witness ==
    /\ zj_pc = "returned" /\ zj_result = 1 /\ zj_requests = {}
    /\ ~SomeCreatorIncomplete /\ SharedOrcid
    /\ Len(CreatorsOf) > 2 /\ CreatorsOf[1] = CreatorsOf[Len(CreatorsOf)]
    /\ zj_stdout = <<"Duplicate entries in creators section">>

ReagentRows1 == 1..Len(rr_df.rows)
ReagentTerminated == rr_pc \in {"returned", "raised"}
\* the ORCIDs of the creators of the .zenodo.json file, and the placeholder
ListedOrcids == {Strip(orcid) : orcid \in ZenodoOrcids}
\* the entries of a cell of semicolon-separated entries
EntriesOf(cell) == Range(CurrentData(cell))
\* some Contributor, Agree or Disagree entry is neither a listed ORCID nor NA
SomeEntryUnlisted ==
    \E n \in ReagentRows1 :
        \/ rr_df.rows[n]["Contributor"] \notin ListedOrcids \cup {NA}
        \/ \E c \in {"Agree", "Disagree"} :
                EntriesOf(rr_df.rows[n][c]) \ (ListedOrcids \cup {NA}) # {}

\* C15: whenever a Contributor, Agree or Disagree entry is an ORCID that is
\* not among the creators of the .zenodo.json file (NA excepted), the call of
\* validate_reagent_resources returns 1, whatever keys the JSON configuration
\* has.
C15_UnlistedOrcidReturns1 ==
    (ReagentTerminated /\ SomeEntryUnlisted) => rr_result = 1

\* the number of ORCIDs in a cell: its entries other than NA
OrcidCount(cell) == Len(SelectSeq(CurrentData(cell), LAMBDA v : v # NA))
HasRun(name) == \E k \in DOMAIN rr_ran : rr_ran[k] = name
OrcidsOf(cell) == EntriesOf(cell) \ {NA}
\* C17: when the earlier checks pass and some row lists the same ORCID in its
\* Agree and in its Disagree column, the call returns 1.
C17_AgreeAndDisagreeReturns1 ==
    (/\ ReagentTerminated
     /\ HasRun("agree and disagree")
     /\ \E n \in ReagentRows1 :
            OrcidsOf(rr_df.rows[n]["Agree"]) \cap OrcidsOf(rr_df.rows[n]["Disagree"]) # {})
        => rr_result = 1

\* the files <target>_<conjugate>/<orcid>.md that the Agree and Disagree columns
\* ask for, the directory name with "_" for the characters of invalid_chars
ExpectedFiles ==
    UNION {{<<DataPath(<<rr_df.rows[n]["Target Name / Protein Biomarker"],
                         rr_df.rows[n]["Conjugate"]>>), orcid>> :
                orcid \in OrcidsOf(rr_df.rows[n]["Agree"])
                            \cup OrcidsOf(rr_df.rows[n]["Disagree"])} :
           n \in ReagentRows1}
\* the markdown files found under the supporting material root
FilesUnderRoot == DOMAIN rr_files
\* C18: a call returns 0 only if the markdown files under the supporting
\* material root are exactly the expected files; once the directory is read, a
\* missing expected file or a superfluous markdown file makes the call
\* return 1.
C18_ZeroOnlyIfFilesAsExpected ==
    /\ rr_result = 0 => FilesUnderRoot = ExpectedFiles
    /\ (/\ ReagentTerminated
        /\ HasRun("supporting material")
        /\ FilesUnderRoot # ExpectedFiles) => rr_result = 1
C18_Witness ==
    /\ rr_result = 1
    /\ HasRun("supporting material")
    /\ ExpectedFiles \subseteq FilesUnderRoot
    /\ \A f \in ExpectedFiles : rr_files[f] = "consistent"
    /\ FilesUnderRoot \ ExpectedFiles # {}

\* the Contributor of some row is in neither the Agree nor the Disagree
\* column of that row
SomeContributorInNeither ==
    \E n \in ReagentRows1 :
        rr_df.rows[n]["Contributor"] \notin
            EntriesOf(rr_df.rows[n]["Agree"]) \cup EntriesOf(rr_df.rows[n]["Disagree"])
\* C19: when the earlier checks pass and the Contributor ORCID of some row is
\* in neither the Agree nor the Disagree column of that row, the call
\* returns 1.
C19_ContributorInNeitherReturns1 ==
    (ReagentTerminated /\ HasRun("contributor") /\ SomeContributorInNeither)
        => rr_result = 1
C19_Witness ==
    /\ rr_result = 1
    /\ rr_ran # <<>> /\ rr_ran[Len(rr_ran)] = "contributor"
    /\ SomeContributorInNeither
    /\ ~SomeEntryUnlisted

(***************************************************************************)
(* validate_videos: what its documentation says of a call.                 *)
(***************************************************************************)
VideosTerminated == vv_pc \in {"returned", "raised"}
\* the entries of a Contributors cell, as the semicolons separate them
ContributorsEntries(n) == Range(Split(vv_df.rows[n]["Contributors"])) \ {<<>>}
\* some entry of the Contributors column is not the ORCID of a creator
SomeContributorUnlisted ==
    \E n \in 1..Len(vv_df.rows) : ContributorsEntries(n) \ ListedOrcids # {}
\* the allowed values of Contributors that validate_df is called with
AllowedContributors == vd_cfg.multi_value_column_is_in["Contributors"]
\* C20: the call of validate_videos returns 1 whenever the Contributors column
\* has an entry that is not the ORCID of a creator of the .zenodo.json file,
\* and validate_df is called with the creator ORCIDs as the allowed values of
\* Contributors, whatever list the configuration gives.
C20_UnlistedContributorReturns1 ==
    /\ (VideosTerminated /\ SomeContributorUnlisted) => vv_result = 1
    /\ vv_pc \notin {"configure", "off"} => AllowedContributors = ListedOrcids

(***************************************************************************)
(* create_release_notes.py: what its documentation says of a run.          *)
(***************************************************************************)
\* the headers of the given release in CHANGELOG.md
SectionsOfTag == {i \in DOMAIN cr_changelog.lines : cr_changelog.lines[i] = "current"}
\* the section of a header: the lines after it up to the next header
SectionOf(i) ==
    {j \in DOMAIN cr_changelog.lines :
        /\ j > i
        /\ \A k \in (i + 1)..j : cr_changelog.lines[k] \in {"note", "blank"}}
\* the given release has a section with a line of notes in it
TagHasNotes ==
    \E i \in SectionsOfTag : \E j \in SectionOf(i) : cr_changelog.lines[j] = "note"

\* C21: the script ends with the exit code 1 when the given release tag has
\* no section in CHANGELOG.md or its section holds no notes, and with the exit
\* code 0 otherwise.
C21_ExitCodeTellsMissingNotes ==
    cr_pc = "exit" => (cr_exit = (IF TagHasNotes THEN 0 ELSE 1))

(***************************************************************************)
(* validate_basic: what its documentation says of a call.                  *)
(***************************************************************************)
\* the settings that the module docstring of validate_basic.py lists
DocumentedSettings ==
    {"data_required_column_names", "data_optional_column_names", "unique_entry_columns",
     "url_columns", "multi_url_columns", "doi_columns", "multi_doi_columns",
     "column_is_in", "multi_value_column_is_in"}
BasicTerminated == vb_pc \in {"returned", "raised"}
\* a column listed under unique_entry_columns holds a value in two rows
UniqueEntryColumnHasDuplicates ==
    /\ "unique_entry_columns" \in DOMAIN vb_config
    /\ \E c \in vb_config["unique_entry_columns"] :
        \E n \in 1..Len(vb_df.rows), m \in 1..Len(vb_df.rows) :
            n # m /\ vb_df.rows[n][c] = vb_df.rows[m][c]
\* C22: a call with a configuration of documented settings only ends with a
\* return value (no setting is refused), and the value is 1 when a column
\* listed under unique_entry_columns contains duplicates.
C22_DocumentedSettingsAccepted ==
    BasicTerminated =>
        /\ DOMAIN vb_config \subseteq DocumentedSettings => vb_pc = "returned"
        /\ UniqueEntryColumnHasDuplicates => vb_result = 1

(***************************************************************************)
(* update_index_stats: what its documentation says of a call.              *)
(***************************************************************************)
\* the template variables of the module docstring, lines 30-34
DocumentedVariables ==
    {"number_of_contributors", "number_of_recommended_antibodies",
     "number_of_not_recommended_antibodies", "number_of_fluorophores",
     "number_of_tissues"}
\* C23: after the call none of the documented template variables remains in
\* the output file: each has been replaced by a value.
C23_NoDocumentedVariableRemains ==
    us_pc = "done" =>
        \A n \in DOMAIN us_output :
            ~(us_output[n].kind = "variable" /\ us_output[n].name \in DocumentedVariables)


\* the rows of the csv file that do not hold exactly one ORCID in their Agree
\* and Disagree cells together
NotExactlyOneOrcidRows ==
    {n \in 1..Len(cs_df.rows) :
        OrcidCount(cs_df.rows[n]["Agree"]) + OrcidCount(cs_df.rows[n]["Disagree"]) # 1}
\* C24: when some row of the csv file does not hold exactly one ORCID in its
\* Agree and Disagree columns together, no directory and no file is ever
\* created, csv_2_supporting is left by a ValueError and main returns 1.
C24_NotSingleOrcidRejected ==
    NotExactlyOneOrcidRows # {} =>
        /\ cs_created = {}
        /\ cs_pc \notin {"create", "returned"}
        /\ cs_pc = "raised" => cs_raised = "ValueError"
        /\ cs_pc = "exit" => (cs_raised = "ValueError" /\ cs_exit = 1)
\* main has returned 1 for a file with a row of two ORCIDs in Agree, although
\* the template file exists
C24_Witness ==
    /\ cs_pc = "exit"
    /\ cs_exit = 1
    /\ cs_raised = "ValueError"
    /\ cs_template
    /\ cs_created = {}
    /\ \E n \in NotExactlyOneOrcidRows :
            OrcidCount(cs_df.rows[n]["Agree"]) = 2

====
